---- MODULE Spec2Model ----
(***************************************************************************)
(* ECG-Lab: the modifier resolver (getPathologyModifiers), the waveform    *)
(* synthesizer (the three-argument generateECGComplex), the ECG instance  *)
(* API (createECG and the setters of the object it returns) and the canvas *)
(* renderer (CanvasRenderer: its life on a page and its sampling).         *)
(*                                                                         *)
(* Number representation.  A JavaScript number is modelled as a fixed-     *)
(* point integer with four decimals: the real x is the integer x * Scale.  *)
(* Phases, amplitudes, widths, noise levels and samples all use this unit. *)
(* Beat numbers, heart rates (bpm) and hash seeds are plain integers.      *)
(* Products and quotients are truncated to the unit (FMul, FDiv).          *)
(* Math.sin(x * Math.PI) is modelled by Bhaskara's rational approximation  *)
(* (SinPi).  A division by zero, which in JavaScript yields NaN/Infinity,  *)
(* is recorded in the set of divisors a call executed.                     *)
(***************************************************************************)
EXTENDS Integers, Sequences, FiniteSets, TLC

Scale == 100 * 100

\* a * b and a / b on fixed-point numbers
FMul(a, b) == (a * b) \div Scale
FDiv(a, b) == IF b = 0 THEN 0 ELSE (a * Scale) \div b

\* JavaScript's % on numbers: the result takes the sign of the dividend
JsMod(a, b) == IF a >= 0 THEN a % b ELSE 0 - ((0 - a) % b)

\* Math.floor on a fixed-point number, as an integer
Floor(a) == a \div Scale

\* Math.round on a fixed-point number, as an integer
Round(a) == (a + (Scale \div 2)) \div Scale

\* Math.sin(x * Math.PI) for x in [0, 1]
SinPi(x) ==
    LET y == FMul(x, Scale - x)
    IN  FDiv(16 * y, 5 * Scale - 4 * y)

\* ((seed * 9301 + 49297) % 233280) / 233280, the seed an integer
HashFraction(h) == (h * 125) \div 2916

----------------------------------------------------------------------------
(* PathologyType and PathologyModifiers *)

PATHOLOGIES ==
    << "normal", "sinus-tachycardia", "sinus-bradycardia", "sinus-arrhythmia",
       "atrial-fibrillation", "atrial-flutter", "atrial-premature-beat",
       "ventricular-tachycardia", "ventricular-fibrillation",
       "ventricular-premature-beat", "first-degree-av-block",
       "second-degree-av-block-type1", "second-degree-av-block-type2",
       "third-degree-av-block", "left-bundle-branch-block",
       "right-bundle-branch-block", "wolff-parkinson-white",
       "left-ventricular-hypertrophy", "right-ventricular-hypertrophy",
       "st-elevation-mi", "st-depression-ischemia", "pathological-q-waves",
       "long-qt-syndrome", "hyperkalaemia", "right-atrial-hypertrophy",
       "left-atrial-hypertrophy" >>

PathologyType == { PATHOLOGIES[i] : i \in 1..Len(PATHOLOGIES) }

\* An identifier outside the PathologyType union (a caller can pass any string)
UnknownPathology == "unknown-rhythm"

Identifier == PathologyType \cup {UnknownPathology}

\* The object literal {}
EmptyModifiers == [f \in {} |-> 0]

\* A field of an object, or the default when the field is undefined
Field(m, f, d) == IF f \in DOMAIN m THEN m[f] ELSE d

\* { ...m, ...o }
Merge(m, o) ==
    [f \in (DOMAIN m) \cup (DOMAIN o) |-> IF f \in DOMAIN o THEN o[f] ELSE m[f]]

\* The case label a value selects: its own, or `default`, which stands with
\* case 'normal'
SwitchLabel_DefaultMisplaced(pathology) ==
    IF pathology \in PathologyType THEN pathology ELSE "sinus-arrhythmia"

SwitchLabel(pathology) ==
    IF pathology \in PathologyType THEN pathology ELSE "normal"

\* The object literal of each case of the switch
CaseModifiers(label) ==
    CASE label = "sinus-arrhythmia" -> [irregularity |-> 1500]
      [] label = "atrial-fibrillation" ->
           [pWavePresent |-> FALSE, baselineNoise |-> 1500, irregularity |-> 8000]
      [] label = "atrial-flutter" ->
           [pWavePresent |-> FALSE, baselineNoise |-> 500]
      [] label = "atrial-premature-beat" ->
           [pWaveAmplitude |-> 7000, pWaveWidth |-> 8000, irregularity |-> 3000,
            abnormalityFrequency |-> 1500, abnormalityPattern |-> "random"]
      [] label = "ventricular-tachycardia" ->
           [pWavePresent |-> FALSE, qrsWidth |-> 18000, qrsAmplitude |-> 12000,
            stSegmentPresent |-> FALSE, tWaveAmplitude |-> 3000]
      [] label = "ventricular-fibrillation" ->
           [pWavePresent |-> FALSE, qrsWidth |-> 0, stSegmentPresent |-> FALSE,
            baselineNoise |-> 5000, irregularity |-> 10000]
      [] label = "ventricular-premature-beat" ->
           [pWavePresent |-> FALSE, qrsWidth |-> 15000, qrsAmplitude |-> 13000,
            stSegmentPresent |-> TRUE, tWaveInverted |-> TRUE,
            abnormalityFrequency |-> 1200, abnormalityPattern |-> "random"]
      [] label = "first-degree-av-block" -> [prInterval |-> 15000]
      [] label = "second-degree-av-block-type1" ->
           [prInterval |-> 12000, prIntervalVariation |-> 3000, droppedBeats |-> 2500]
      [] label = "second-degree-av-block-type2" ->
           [prInterval |-> 10000, droppedBeats |-> 3300]
      [] label = "third-degree-av-block" ->
           [avDissociation |-> TRUE, ventricularRate |-> 40]
      [] label = "left-bundle-branch-block" ->
           [qrsWidth |-> 15000, qrsMorphology |-> "lbbb", stSegmentPresent |-> TRUE,
            tWaveInverted |-> TRUE, abnormalityFrequency |-> 9500,
            abnormalityPattern |-> "random"]
      [] label = "right-bundle-branch-block" ->
           [qrsWidth |-> 15000, qrsMorphology |-> "rbbb", stSegmentPresent |-> TRUE,
            tWaveInverted |-> TRUE, abnormalityFrequency |-> 9500,
            abnormalityPattern |-> "random"]
      [] label = "wolff-parkinson-white" ->
           [prInterval |-> 7000, deltaWave |-> TRUE, qrsWidth |-> 12000,
            abnormalityFrequency |-> 2200, abnormalityPattern |-> "random"]
      [] label = "left-ventricular-hypertrophy" ->
           [qrsAmplitude |-> 15000, qrsWidth |-> 11000, stSegmentElevation |-> -1500,
            tWaveInverted |-> TRUE]
      [] label = "right-ventricular-hypertrophy" ->
           [qrsAmplitude |-> 12000, qrsWidth |-> 11000, stSegmentElevation |-> -1000,
            tWaveInverted |-> TRUE]
      [] label = "st-elevation-mi" ->
           [stSegmentElevation |-> 2500, stSegmentDuration |-> 12000,
            tWaveInverted |-> TRUE, qrsMorphology |-> "pathological-q",
            abnormalityFrequency |-> 8500, abnormalityPattern |-> "random"]
      [] label = "st-depression-ischemia" ->
           [stSegmentElevation |-> -1500, stSegmentDuration |-> 11000,
            tWaveInverted |-> TRUE, abnormalityFrequency |-> 7500,
            abnormalityPattern |-> "random"]
      [] label = "pathological-q-waves" ->
           [qrsMorphology |-> "pathological-q", qrsWidth |-> 12000,
            stSegmentElevation |-> -1000, tWaveInverted |-> TRUE,
            abnormalityFrequency |-> 9000, abnormalityPattern |-> "random"]
      [] label = "long-qt-syndrome" ->
           [qtInterval |-> 14000, tWaveAmplitude |-> 12000, tWaveWidth |-> 13000]
      [] label = "hyperkalaemia" ->
           [pWaveAmplitude |-> 3000, pWavePresent |-> TRUE, qrsWidth |-> 15000,
            stSegmentPresent |-> FALSE, tWaveAmplitude |-> 18000,
            tWaveWidth |-> 12000, tWaveTented |-> TRUE]
      [] label = "right-atrial-hypertrophy" ->
           [pWaveAmplitude |-> 15000, pWaveWidth |-> 10000, pWavePresent |-> TRUE]
      [] label = "left-atrial-hypertrophy" ->
           [pWaveAmplitude |-> 10000, pWaveWidth |-> 14000, pWavePresent |-> TRUE]
      [] OTHER -> EmptyModifiers

\* The switch of getPathologyModifiers
SwitchModifiers(pathology) == CaseModifiers(SwitchLabel(pathology))

----------------------------------------------------------------------------
(* Segment generators.  Each returns [v |-> the contribution,              *)
(* d |-> the divisors of the divisions it executed].                       *)

\* (a window closed at its end: phase <= end)
InWindow_Closed(phase, start, end) == phase >= start /\ phase <= end

\* phase >= start && phase < end
InWindow(phase, start, end) == phase >= start /\ phase < end

Silent == [v |-> 0, d |-> {}]

\* (a P wave as wide as pWaveWidth says)
generatePWave_Widened(phase, modifiers) ==
    LET pWaveAmplitude == Field(modifiers, "pWaveAmplitude", Scale)
        pWavePresent   == Field(modifiers, "pWavePresent", TRUE)
        pStart == 0
        pEnd   == FMul(1400, Field(modifiers, "pWaveWidth", Scale))
    IN  IF ~pWavePresent \/ pWaveAmplitude = 0 THEN Silent
        ELSE IF InWindow(phase, pStart, pEnd)
             THEN LET pPhase == FDiv(phase - pStart, pEnd - pStart)
                  IN  [v |-> FMul(FMul(SinPi(pPhase), 1500), pWaveAmplitude),
                       d |-> {pEnd - pStart}]
             ELSE Silent

generatePWave(phase, modifiers) ==
    LET pWaveAmplitude == Field(modifiers, "pWaveAmplitude", Scale)
        pWavePresent   == Field(modifiers, "pWavePresent", TRUE)
        pStart == 0
        pEnd   == 1400
    IN  IF ~pWavePresent \/ pWaveAmplitude = 0 THEN Silent
        ELSE IF InWindow(phase, pStart, pEnd)
             THEN LET pPhase == FDiv(phase - pStart, pEnd - pStart)
                  IN  [v |-> FMul(FMul(SinPi(pPhase), 1500), pWaveAmplitude),
                       d |-> {pEnd - pStart}]
             ELSE Silent

\* The PR interval of this beat: progressive lengthening over a 4-beat cycle
\* (a lengthening cycle of five beats instead of four)
currentPRInterval_FiveCycle(modifiers, beatNumber) ==
    LET prInterval          == Field(modifiers, "prInterval", Scale)
        prIntervalVariation == Field(modifiers, "prIntervalVariation", 0)
        cycleLength   == 5
        cyclePosition == JsMod(beatNumber, cycleLength)
    IN  IF prIntervalVariation > 0 /\ beatNumber > 0 /\ cyclePosition < cycleLength - 1
        THEN prInterval + (prIntervalVariation * cyclePosition) \div (cycleLength - 1)
        ELSE prInterval

currentPRInterval(modifiers, beatNumber) ==
    LET prInterval          == Field(modifiers, "prInterval", Scale)
        prIntervalVariation == Field(modifiers, "prIntervalVariation", 0)
        cycleLength   == 4
        cyclePosition == JsMod(beatNumber, cycleLength)
    IN  IF prIntervalVariation > 0 /\ beatNumber > 0 /\ cyclePosition < cycleLength - 1
        THEN prInterval + (prIntervalVariation * cyclePosition) \div (cycleLength - 1)
        ELSE prInterval

generatePRSegment(phase, modifiers, beatNumber) ==
    LET deltaWave == Field(modifiers, "deltaWave", FALSE)
        prStart == 1400
        prEnd   == prStart + FMul(600, currentPRInterval(modifiers, beatNumber))
    IN  IF deltaWave /\ InWindow(phase, prStart, prEnd)
        THEN LET deltaPhase == FDiv(phase - prStart, prEnd - prStart)
             IN  [v |-> FMul(SinPi(deltaPhase), 500), d |-> {prEnd - prStart}]
        ELSE Silent

\* (a jitter of 30% instead of 3%)
amplitudeVariation_Wide(beatNumber) ==
    Scale + FMul(((JsMod(beatNumber * 9301 + 49297, 200) - 100) * Scale) \div 100, 3000)

\* 1.0 + ((beatNumber * 9301 + 49297) % 200 - 100) / 100 * 0.03
amplitudeVariation(beatNumber) ==
    Scale + FMul(((JsMod(beatNumber * 9301 + 49297, 200) - 100) * Scale) \div 100, 300)

\* x * qrsAmplitude * amplitudeVariation
Scaled(x, qrsAmplitude, variation) == FMul(FMul(x, qrsAmplitude), variation)

\* The piecewise-linear shape of each morphology at qrsPhase in [0, 1)
qrsShape(qrsMorphology, qrsPhase) ==
    CASE qrsMorphology = "lbbb" ->
           IF qrsPhase < 1500 THEN FMul(-500, FDiv(qrsPhase, 1500))
           ELSE IF qrsPhase < 4000 THEN FMul(FDiv(qrsPhase - 1500, 2500), Scale)
           ELSE IF qrsPhase < 5500
                THEN Scale - FMul(FDiv(qrsPhase - 4000, 1500), 12000)
           ELSE IF qrsPhase < 8000
                THEN -2000 + FMul(FDiv(qrsPhase - 5500, 2500), 8000)
           ELSE FMul(-2000, Scale - FDiv(qrsPhase - 8000, 2000))
      [] qrsMorphology = "rbbb" ->
           IF qrsPhase < 2000 THEN FMul(FDiv(qrsPhase, 2000), 8000)
           ELSE IF qrsPhase < 4500
                THEN 8000 - FMul(FDiv(qrsPhase - 2000, 2500), Scale)
           ELSE IF qrsPhase < 7000
                THEN -2000 + FMul(FDiv(qrsPhase - 4500, 2500), 6000)
           ELSE FMul(4000, Scale - FDiv(qrsPhase - 7000, 3000))
      [] qrsMorphology = "pathological-q" ->
           IF qrsPhase < 2500 THEN FMul(-2500, FDiv(qrsPhase, 2500))
           ELSE IF qrsPhase < 5000
                THEN -2500 + FMul(FDiv(qrsPhase - 2500, 2500), 11000)
           ELSE IF qrsPhase < 7500
                THEN 8500 - FMul(FDiv(qrsPhase - 5000, 2500), 9500)
           ELSE FMul(-1000, Scale - FDiv(qrsPhase - 7500, 2500))
      [] OTHER ->
           IF qrsPhase < 1200 THEN FMul(-1000, FDiv(qrsPhase, 1200))
           ELSE IF qrsPhase < 5000
                THEN LET rPhase == FDiv(qrsPhase - 1200, 3800)
                     IN  IF rPhase < 5000
                         THEN -1000 + FMul(11000, rPhase * 2)
                         ELSE Scale - FMul(Scale, (rPhase - 5000) * 2)
           ELSE IF qrsPhase < 7500
                THEN 0 - FMul(0 - (-1000), FDiv(qrsPhase - 5000, 2500))
           ELSE FMul(-1000, Scale - FDiv(qrsPhase - 7500, 2500))

\* (a QRS window of 0.12 * qrsWidth, the length of the ST window)
generateQRSComplex_Wide(phase, modifiers, beatNumber) ==
    LET qrsWidth      == Field(modifiers, "qrsWidth", Scale)
        qrsAmplitude  == Field(modifiers, "qrsAmplitude", Scale)
        qrsMorphology == Field(modifiers, "qrsMorphology", "normal")
        qrsStart    == 2000
        qrsDuration == FMul(1200, qrsWidth)
        qrsEnd      == qrsStart + qrsDuration
    IN  IF InWindow(phase, qrsStart, qrsEnd)
        THEN LET qrsPhase == FDiv(phase - qrsStart, qrsDuration)
             IN  [v |-> Scaled(qrsShape(qrsMorphology, qrsPhase), qrsAmplitude,
                               amplitudeVariation(beatNumber)),
                  d |-> {qrsDuration}]
        ELSE Silent

generateQRSComplex(phase, modifiers, beatNumber) ==
    LET qrsWidth      == Field(modifiers, "qrsWidth", Scale)
        qrsAmplitude  == Field(modifiers, "qrsAmplitude", Scale)
        qrsMorphology == Field(modifiers, "qrsMorphology", "normal")
        qrsStart    == 2000
        qrsDuration == FMul(800, qrsWidth)
        qrsEnd      == qrsStart + qrsDuration
    IN  IF InWindow(phase, qrsStart, qrsEnd)
        THEN LET qrsPhase == FDiv(phase - qrsStart, qrsDuration)
             IN  [v |-> Scaled(qrsShape(qrsMorphology, qrsPhase), qrsAmplitude,
                               amplitudeVariation(beatNumber)),
                  d |-> {qrsDuration}]
        ELSE Silent

generateSTSegment(phase, modifiers) ==
    LET stSegmentPresent   == Field(modifiers, "stSegmentPresent", TRUE)
        stSegmentDuration  == Field(modifiers, "stSegmentDuration", Scale)
        qrsWidth           == Field(modifiers, "qrsWidth", Scale)
        stSegmentElevation == Field(modifiers, "stSegmentElevation", 0)
        qrsEnd  == 2000 + FMul(800, qrsWidth)
        stStart == qrsEnd
        stEnd   == stStart + FMul(1200, stSegmentDuration)
    IN  IF ~stSegmentPresent THEN Silent
        ELSE IF InWindow(phase, stStart, stEnd)
             THEN [v |-> stSegmentElevation, d |-> {}]
             ELSE Silent

generateTWave(phase, modifiers) ==
    LET tWaveAmplitude    == Field(modifiers, "tWaveAmplitude", Scale)
        tWaveWidth        == Field(modifiers, "tWaveWidth", Scale)
        tWaveTented       == Field(modifiers, "tWaveTented", FALSE)
        tWaveInverted     == Field(modifiers, "tWaveInverted", FALSE)
        qrsWidth          == Field(modifiers, "qrsWidth", Scale)
        stSegmentDuration == Field(modifiers, "stSegmentDuration", Scale)
        stEnd  == 2000 + FMul(800, qrsWidth) + FMul(1200, stSegmentDuration)
        tStart == stEnd
        tEnd   == tStart + FMul(2000, tWaveWidth)
    IN  IF InWindow(phase, tStart, tEnd)
        THEN LET tPhase == FDiv(phase - tStart, tEnd - tStart)
                 baseAmplitude == IF tWaveTented THEN 4000 ELSE 2500
                 tValue == FMul(FMul(SinPi(tPhase), baseAmplitude), tWaveAmplitude)
             IN  [v |-> IF tWaveInverted THEN 0 - tValue ELSE tValue,
                  d |-> {tEnd - tStart}]
        ELSE Silent

\* frequency === undefined || frequency >= 1.0
alwaysShown_UnsetOnly(modifiers) == "abnormalityFrequency" \notin DOMAIN modifiers

alwaysShown(modifiers) ==
    \/ "abnormalityFrequency" \notin DOMAIN modifiers
    \/ modifiers["abnormalityFrequency"] >= Scale

\* case 'periodic'
periodicPattern_First(beatNumber, cycleLength) == JsMod(beatNumber, cycleLength) = 0

periodicPattern(beatNumber, cycleLength) ==
    JsMod(beatNumber, cycleLength) = cycleLength - 1

\* case 'clustered'
clusteredPattern(beatNumber, cycleLength) ==
    LET clusterSize  == (cycleLength + 1) \div 2
        clusterStart == (beatNumber \div cycleLength) * cycleLength
    IN  (beatNumber - clusterStart) < clusterSize

\* case 'random' and default
randomPattern_Inverted(beatNumber, frequency) ==
    frequency < HashFraction(JsMod(beatNumber * 9301 + 49297, 233280))

randomPattern(beatNumber, frequency) ==
    HashFraction(JsMod(beatNumber * 9301 + 49297, 233280)) < frequency

\* Whether the abnormality appears on this beat
shouldShowAbnormality(beatNumber, modifiers) ==
    IF alwaysShown(modifiers)
    THEN TRUE
    ELSE IF modifiers["abnormalityFrequency"] <= 0
    THEN FALSE
    ELSE LET frequency   == modifiers["abnormalityFrequency"]
             pattern     == Field(modifiers, "abnormalityPattern", "random")
             given       == Field(modifiers, "abnormalityCycleLength", 4)
             cycleLength == IF given = 0 THEN 4 ELSE given
         IN  CASE pattern = "periodic" -> periodicPattern(beatNumber, cycleLength)
               [] pattern = "clustered" -> clusteredPattern(beatNumber, cycleLength)
               [] OTHER -> randomPattern(beatNumber, frequency)

----------------------------------------------------------------------------
(* The resolver.  Objects live in a heap (reference -> object); the        *)
(* module-level Map pathologyModifiersCache maps identifiers to references.*)
(* A store is [cache |-> ..., heap |-> ...]; references are 1, 2, ... in   *)
(* allocation order.                                                       *)

EmptyStore == [cache |-> [k \in {} |-> 0], heap |-> << >>]

\* pathologyModifiersCache.has(pathology)
CacheHas(st, pathology) == pathology \in DOMAIN st.cache

\* A new object on the heap
Allocate(st, object) ==
    [st |-> [st EXCEPT !.heap = Append(st.heap, object)], ref |-> Len(st.heap) + 1]

\* (a resolver that never stores what it computed)
CacheSet_Forget(st, pathology, ref) == st

\* (a cache that keeps only the newest entry)
CacheSet_Single(st, pathology, ref) ==
    [st EXCEPT !.cache = [k \in {pathology} |-> ref]]

\* pathologyModifiersCache.set(pathology, ref)
CacheSet(st, pathology, ref) ==
    [st EXCEPT !.cache =
        [k \in (DOMAIN st.cache) \cup {pathology} |->
            IF k = pathology THEN ref ELSE st.cache[k]]]

\* getPathologyModifiers: the store after the call and the reference returned
getPathologyModifiers(st, pathology) ==
    IF CacheHas(st, pathology)
    THEN [st |-> st, ref |-> st.cache[pathology]]
    ELSE LET made == Allocate(st, SwitchModifiers(pathology))
         IN  [st |-> CacheSet(made.st, pathology, made.ref), ref |-> made.ref]

----------------------------------------------------------------------------
(* generateECGComplex *)

\* The reference of an object no variable but the local one holds
NoRef == 0

\* (Object.assign(modifiers, <overrides>): the overrides written into the
\* object behind ref, which is the object the expression yields)
SpreadModifiers_InPlace(st, ref, overrides) ==
    [st |-> [st EXCEPT !.heap[ref] = Merge(st.heap[ref], overrides)],
     obj |-> Merge(st.heap[ref], overrides), ref |-> ref]

\* { ...modifiers, <overrides> }: a new object, local to the call; the
\* object behind ref is left as it is
SpreadModifiers(st, ref, overrides) ==
    [st |-> st, obj |-> Merge(st.heap[ref], overrides), ref |-> NoRef]

\* The object behind ref itself, not a copy
SameModifiers(st, ref) == [st |-> st, obj |-> st.heap[ref], ref |-> ref]

\* ((seed % 233280) / 233280 - 0.5) * span, seed = currentBeatNumber * a + c
beatVariation(seed, span) ==
    FMul(HashFraction(JsMod(seed, 233280)) - 5000, span)

\* (WPW hidden without switching the delta wave off)
hiddenPreexcitation_DeltaKept(st, ref) ==
    SpreadModifiers(st, ref,
        [prInterval |-> Scale, qrsWidth |-> Scale, qrsMorphology |-> "normal"])

\* WPW when not preexcited: normal PR and QRS
hiddenPreexcitation(st, ref) ==
    SpreadModifiers(st, ref,
        [prInterval |-> Scale, deltaWave |-> FALSE, qrsWidth |-> Scale,
         qrsMorphology |-> "normal"])

\* (the ST change of a hidden beat removed instead of reduced)
hiddenSTChange_Removed(st, ref, currentBeatNumber) ==
    SpreadModifiers(st, ref, [stSegmentElevation |-> 0])

\* ST changes: baseSTChange * (0.3 + variation), variation within +/-10%
hiddenSTChange(st, ref, currentBeatNumber) ==
    SpreadModifiers(st, ref,
        [stSegmentElevation |->
            FMul(Field(st.heap[ref], "stSegmentElevation", 0),
                 3000 + beatVariation(currentBeatNumber * 7301 + 29347, 2000))])

\* The modifiers a hidden-abnormality beat uses (showAbnormality false and
\* pathology not normal): the if / else-if chain on the pathology
hiddenModifiers(st, ref, pathology, currentBeatNumber) ==
    LET modifiers == st.heap[ref]
    IN  IF pathology = "wolff-parkinson-white"
        THEN hiddenPreexcitation(st, ref)
        ELSE IF pathology \in {"atrial-premature-beat", "ventricular-premature-beat"}
        THEN SameModifiers(st, ref)
        ELSE IF pathology \in {"st-elevation-mi", "st-depression-ischemia"}
        THEN hiddenSTChange(st, ref, currentBeatNumber)
        ELSE IF "stSegmentElevation" \in DOMAIN modifiers
                /\ modifiers["stSegmentElevation"] # 0
        THEN LET variation == beatVariation(currentBeatNumber * 5301 + 19347, 500)
             IN  SpreadModifiers(st, ref,
                     [stSegmentElevation |->
                         FMul(modifiers["stSegmentElevation"], Scale + variation)])
        ELSE IF pathology = "pathological-q-waves"
        THEN SpreadModifiers(st, ref, [qrsMorphology |-> "normal"])
        ELSE IF pathology \in {"left-bundle-branch-block", "right-bundle-branch-block"}
        THEN SpreadModifiers(st, ref,
                 [qrsWidth |-> Scale, qrsMorphology |-> "normal",
                  tWaveInverted |-> FALSE])
        ELSE SameModifiers(st, ref)

\* The phase-seeded hash of the noise term:
\* noiseSeed = p * 1000 + Math.floor(p * 10000);
\* ((noiseSeed * 9301 + 49297) % 233280) / 233280.
\* With p in units of 1/10000 the seed is 11 * p tenths, and the hash is
\* taken in tenths as well
phaseHash(p) ==
    LET seedTenths == p + 10 * p
        hashTenths == JsMod(seedTenths * 9301 + 492970, 2332800)
    IN  (hashTenths * 25) \div 5832

\* if (totalNoise > 0) value += (pseudoRandom - 0.5) * totalNoise
noiseTerm(normalizedPhase, totalNoise) ==
    IF totalNoise > 0 THEN FMul(phaseHash(normalizedPhase) - 5000, totalNoise) ELSE 0

\* (the first beat of each cycle dropped instead of the last)
droppedBeatCheck_First(modifiers, currentBeatNumber) ==
    IF "droppedBeats" \in DOMAIN modifiers /\ modifiers["droppedBeats"] > 0
    THEN LET cycleLength == Round(FDiv(Scale, modifiers["droppedBeats"]))
         IN  [d |-> {modifiers["droppedBeats"]},
              dropped |-> cycleLength > 1 /\ JsMod(currentBeatNumber, cycleLength) = 0]
    ELSE [d |-> {}, dropped |-> FALSE]

\* The dropped-beat check: the divisor of 1 / droppedBeats when it is
\* evaluated, and whether this beat is dropped
droppedBeatCheck(modifiers, currentBeatNumber) ==
    IF "droppedBeats" \in DOMAIN modifiers /\ modifiers["droppedBeats"] > 0
    THEN LET cycleLength == Round(FDiv(Scale, modifiers["droppedBeats"]))
         IN  [d |-> {modifiers["droppedBeats"]},
              dropped |-> cycleLength > 1
                          /\ JsMod(currentBeatNumber, cycleLength) = cycleLength - 1]
    ELSE [d |-> {}, dropped |-> FALSE]

\* An absent third argument
NoBeat == -1

\* value += <segment>: the contributions add up, the divisions accumulate
Plus(a, b) == [v |-> a.v + b.v, d |-> a.d \cup b.d]

\* value = <expression>: the value so far is overwritten, the divisions
\* executed so far stay executed
Replace(done, new) == [v |-> new.v, d |-> done.d \cup new.d]

\* A dropped beat: only the P wave and the PR segment
droppedBeat(c, eff) ==
    [seg |-> Plus(generatePWave(c.normalizedPhase, eff.obj),
                  generatePRSegment(c.normalizedPhase, eff.obj, c.currentBeatNumber)),
     st |-> eff.st]

\* atrialPhase = (phase * heartRate / 60) % 1
atrialPhaseOf(phase, heartRate) == JsMod((phase * heartRate) \div 60, Scale)

\* (the ventricles at the atrial rate when the modifiers give none)
ventricularPhaseOf_AtrialRate(phase, heartRate, modifiers) ==
    LET given == Field(modifiers, "ventricularRate", 0)
        ventricularTenths == IF given # 0 THEN given * 10 ELSE heartRate * 10
    IN  JsMod((phase * ventricularTenths) \div 600, Scale)

\* ventricularPhase = (phase * ventricularRate / 60) % 1, with
\* ventricularRate || heartRate * 0.4 taken in tenths of a beat per minute
ventricularPhaseOf(phase, heartRate, modifiers) ==
    LET given == Field(modifiers, "ventricularRate", 0)
        ventricularTenths == IF given # 0 THEN given * 10 ELSE heartRate * 4
    IN  JsMod((phase * ventricularTenths) \div 600, Scale)

\* let value = generatePWave(atrialPhase, effectiveModifiers)
atrialContribution(c, eff) ==
    generatePWave(atrialPhaseOf(c.phase, c.heartRate), eff.obj)

\* value += the PR segment, the QRS complex, the ST segment and the T wave at
\* ventricularPhase
ventricularContribution(c, eff, ventricularPhase) ==
    Plus(generatePRSegment(ventricularPhase, eff.obj, c.currentBeatNumber),
    Plus(generateQRSComplex(ventricularPhase, eff.obj, c.currentBeatNumber),
    Plus(generateSTSegment(ventricularPhase, eff.obj),
         generateTWave(ventricularPhase, eff.obj))))

\* AV dissociation: P waves at the atrial rate, the rest at the ventricular
\* rate, both phases taken from `phase` as passed
avDissociation(c, eff) ==
    [seg |-> Plus(atrialContribution(c, eff),
                  ventricularContribution(c, eff,
                      ventricularPhaseOf(c.phase, c.heartRate, eff.obj))),
     st |-> eff.st]

\* Premature beats occur early in the cycle
adjustedPhaseOf(c, showAbnormality) ==
    IF c.pathology = "atrial-premature-beat" /\ showAbnormality
    THEN FMul(c.normalizedPhase, 7000)
    ELSE IF c.pathology = "ventricular-premature-beat" /\ showAbnormality
    THEN FMul(c.normalizedPhase, 6000)
    ELSE c.normalizedPhase

\* The modifiers the T wave is drawn with: for a qtInterval other than 1.0,
\* { ...effectiveModifiers, tWaveWidth: (tWaveWidth || 1.0) * qtMultiplier }
tWaveModifiers(eff) ==
    LET qtGiven      == Field(eff.obj, "qtInterval", 0)
        qtMultiplier == IF qtGiven = 0 THEN Scale ELSE qtGiven
        tGiven       == Field(eff.obj, "tWaveWidth", 0)
        overrides    == [tWaveWidth |-> FMul(IF tGiven = 0 THEN Scale ELSE tGiven,
                                             qtMultiplier)]
    IN  IF qtMultiplier = Scale THEN eff
        ELSE IF eff.ref = NoRef
        THEN [st |-> eff.st, obj |-> Merge(eff.obj, overrides), ref |-> NoRef]
        ELSE SpreadModifiers(eff.st, eff.ref, overrides)

\* Atrial flutter: before the QRS the value is a 3-cycle sawtooth, and the
\* four later segments are added to it again
flutter(c, modifiers, adjustedPhase, summed) ==
    LET flutterCycles == 3
        flutterSpan   == FDiv(2000, flutterCycles * Scale)
        flutterPhase  == FDiv(JsMod(adjustedPhase, flutterSpan), flutterSpan)
        sawtooth      == (IF flutterPhase < 5000
                          THEN FMul(flutterPhase, 4000)
                          ELSE FMul(Scale - flutterPhase, 4000)) - 2000
    IN  IF c.pathology = "atrial-flutter" /\ adjustedPhase < 2000
        THEN Replace(summed,
                 Plus([v |-> sawtooth, d |-> {flutterSpan}],
                 Plus(generatePRSegment(adjustedPhase, modifiers, c.currentBeatNumber),
                 Plus(generateQRSComplex(adjustedPhase, modifiers, c.currentBeatNumber),
                 Plus(generateSTSegment(adjustedPhase, modifiers),
                      generateTWave(adjustedPhase, modifiers))))))
        ELSE summed

\* Ventricular fibrillation: the whole value is phase-seeded noise
fibrillation(c, adjustedPhase, summed) ==
    IF c.pathology = "ventricular-fibrillation"
    THEN Replace(summed, [v |-> FMul(phaseHash(adjustedPhase) - 5000, 12000), d |-> {}])
    ELSE summed

\* An ordinary beat: the five segments, then the two special cases
beat(c, eff, showAbnormality, adjustedPhase, tMods) ==
    [seg |->
        fibrillation(c, adjustedPhase,
            flutter(c, eff.obj, adjustedPhase,
                Plus(IF c.pathology = "ventricular-premature-beat" /\ showAbnormality
                     THEN Silent
                     ELSE generatePWave(adjustedPhase, eff.obj),
                Plus(generatePRSegment(adjustedPhase, eff.obj, c.currentBeatNumber),
                Plus(generateQRSComplex(adjustedPhase, eff.obj, c.currentBeatNumber),
                Plus(generateSTSegment(adjustedPhase, eff.obj),
                     generateTWave(adjustedPhase, tMods.obj))))))),
     st |-> tMods.st]

\* value += (pseudoRandom - 0.5) * totalNoise; return value * amplitude
finish(c, drop, out, noiseValue) ==
    [value |-> FMul(out.seg.v + noiseValue, c.amplitude),
     d |-> drop.d \cup out.seg.d,
     st |-> out.st]

\* The three ways a sample is put together, by the effective modifiers
complexOf(c, eff, showAbnormality, drop) ==
    finish(c, drop,
           IF drop.dropped THEN droppedBeat(c, eff)
           ELSE IF Field(eff.obj, "avDissociation", FALSE) THEN avDissociation(c, eff)
           ELSE beat(c, eff, showAbnormality, adjustedPhaseOf(c, showAbnormality),
                     tWaveModifiers(eff)),
           noiseTerm(c.normalizedPhase, c.noise + Field(eff.obj, "baselineNoise", 0)))

\* effectiveModifiers: the resolved object, or on a beat that hides the
\* abnormality what hiddenModifiers makes of it
effectiveOf(c, got, showAbnormality) ==
    IF ~showAbnormality /\ c.pathology # "normal"
    THEN hiddenModifiers(got.st, got.ref, c.pathology, c.currentBeatNumber)
    ELSE SameModifiers(got.st, got.ref)

\* ... with effectiveModifiers chosen: the dropped-beat check comes first
\* (the result also tells what showAbnormality and effectiveModifiers were)
withEffectiveModifiers(c, showAbnormality, eff) ==
    Merge(complexOf(c, eff, showAbnormality,
                    droppedBeatCheck(eff.obj, c.currentBeatNumber)),
          [showAbnormality |-> showAbnormality, effectiveModifiers |-> eff.obj])

\* ... with showAbnormality decided
withShowAbnormality(c, got, showAbnormality) ==
    withEffectiveModifiers(c, showAbnormality, effectiveOf(c, got, showAbnormality))

\* The body of generateECGComplex once config is destructured (c) and the
\* modifiers are resolved (got)
withModifiers(c, got) ==
    withShowAbnormality(c, got,
        shouldShowAbnormality(c.currentBeatNumber, got.st.heap[got.ref]))

\* generateECGComplex(phase, config, beatNumber) run on store st:
\* [value |-> the sample, d |-> the divisors executed, st |-> the store after]
generateECGComplex(phase, config, beatNumber, st) ==
    withModifiers([phase |-> phase,
                   normalizedPhase |-> JsMod(phase, Scale),
                   pathology |-> config.pathology,
                   amplitude |-> Field(config, "amplitude", Scale),
                   noise |-> Field(config, "noise", 200),
                   heartRate |-> Field(config, "heartRate", 72),
                   currentBeatNumber |->
                       IF beatNumber = NoBeat THEN Floor(phase) ELSE beatNumber],
                  getPathologyModifiers(st, config.pathology))

----------------------------------------------------------------------------
(* State *)

VARIABLES
    store,      \* pathologyModifiersCache and the heap of modifier objects
    ids,        \* the identifiers the callers of this run use
    first,      \* the first generateECGComplex call of the run (see Generate)
    repeats,    \* the values returned by the calls with the input of `first`
    returned,   \* per identifier, the references its last two direct
                \* getPathologyModifiers calls returned
    input,      \* one caller's (phase, config, beatNumber)
    sample,     \* what generateECGComplex returned for `input`
    later,      \* what it returned for the same point whole cycles later
    calls,      \* per concurrent caller, its getPathologyModifiers call
    started,    \* how many concurrent calls were started
    ecg,        \* the ECG instance: createECG's config and its renderer
    asked,      \* the heart rate last asked for (createECG, setHeartRate)
    called,     \* the setters called on the instance so far
    wanted,     \* the pathology last asked for (createECG, setPathology)
    defaulted,  \* the config fields no caller has given a value for yet
    renderer,   \* the CanvasRenderer's fields
    browser,    \* the page: pending animation frames, observers, listeners
    destroyed,  \* whether destroy() has returned, and the draws since
    decision,   \* one shouldShowAbnormality call: its arguments and result
    tally,      \* a run of beats of one pathology: how many showed it
    segments,   \* what the five segment generators returned for `input`
    sweep       \* the renderer sampling pixel after pixel: time and beats

vars == << store, ids, first, repeats, returned, input, sample, later,
           calls, started, ecg, asked, called, wanted, defaulted,
           renderer, browser, destroyed, decision, tally, segments, sweep >>

callVars  == << ids, first, repeats, returned >>
synthVars == << input, sample, later >>
concVars  == << calls, started >>
ecgVars   == << ecg, asked, called, wanted, defaulted >>
renderVars  == << renderer, browser, destroyed >>
patternVars == << decision, tally >>
segmentVars == << segments >>
sweepVars   == << sweep >>

None == [none |-> TRUE]

\* Callers pass MaxBeat + 1 different beat numbers
MaxBeat == 1

\* Phases callers pass: PR segment, QRS complex, ST segment, T wave
CallPhases == {1500, 2500, 3300, 5000}

\* The identifiers of one run: two neighbours of the list of identifiers
\* (PATHOLOGIES, then the unknown one, then round to the first)
Sessions ==
    LET all == Append(PATHOLOGIES, UnknownPathology)
    IN  { {all[i], all[(i % Len(all)) + 1]} : i \in 1..Len(all) }

\* The config of the README's quick start, for pathology p
ConfigOf(p) == [pathology |-> p, heartRate |-> 72, amplitude |-> Scale, noise |-> 200]

\* Beat numbers callers pass: on beat 0 every pathology with an
\* abnormalityFrequency of 0.22 or more shows its abnormality, on beat 19
\* every intermittent pathology hides it
CallBeats == { 19 * i : i \in 0..MaxBeat }

CallInputs(S) ==
    { [phase |-> ph, config |-> ConfigOf(p), beatNumber |-> b] :
        ph \in CallPhases, p \in S, b \in CallBeats }

\* No sequence of calls under way
CallsIdle ==
    /\ first = None
    /\ repeats = {}
    /\ returned = [k \in {} |-> << >>]

\* No single sample under study
SynthIdle == input = None /\ sample = None /\ later = None

\* No concurrent callers
ConcIdle == calls = << >> /\ started = 0

\* No ECG instance
ECGIdle ==
    ecg = None /\ asked = {} /\ called = {} /\ wanted = {} /\ defaulted = {}

\* No renderer on the page
RenderIdle == renderer = None /\ browser = None /\ destroyed = None

\* No abnormality pattern under study
PatternIdle == decision = None /\ tally = None

\* No segment generator called on its own, no renderer sampling
SegmentsIdle == segments = None
SweepIdle == sweep = None

Init ==
    /\ store = EmptyStore
    /\ ids \in Sessions
    /\ CallsIdle
    /\ SynthIdle
    /\ ConcIdle
    /\ ECGIdle
    /\ RenderIdle
    /\ PatternIdle
    /\ SegmentsIdle
    /\ SweepIdle

\* `first` once another call has been made after it
Intervened == IF first = None THEN first ELSE [first EXCEPT !.between = TRUE]

\* The last two elements of a sequence
LastTwo(q) == IF Len(q) > 2 THEN Tail(q) ELSE q

\* A caller resolves identifier k
Resolved(k, got) ==
    /\ store' = got.st
    /\ returned' = [j \in (DOMAIN returned) \cup {k} |->
                       IF j = k THEN LastTwo(Append(Field(returned, k, << >>), got.ref))
                       ELSE returned[j]]
    /\ first' = Intervened
    /\ UNCHANGED << ids, repeats, synthVars, concVars, ecgVars, renderVars,
                    patternVars, segmentVars, sweepVars >>

Resolve(k) == Resolved(k, getPathologyModifiers(store, k))

\* A caller synthesizes one sample.  `first` keeps the input and the value of
\* the run's first call, whether other calls followed it (between) and
\* whether the same input was then passed again (again)
Generated(in, out) ==
    /\ store' = out.st
    /\ first' = IF first = None
                THEN [input |-> in, value |-> out.value,
                      between |-> FALSE, again |-> FALSE]
                ELSE IF first.input = in
                THEN [first EXCEPT !.again = first.between]
                ELSE Intervened
    /\ repeats' = IF first = None \/ first.input = in
                  THEN repeats \cup {out.value} ELSE repeats
    /\ UNCHANGED << ids, returned, synthVars, concVars, ecgVars, renderVars,
                    patternVars, segmentVars, sweepVars >>

Generate(in) ==
    Generated(in, generateECGComplex(in.phase, in.config, in.beatNumber, store))

Next ==
    \/ \E k \in ids : Resolve(k)
    \/ \E in \in CallInputs(ids) : Generate(in)

Spec == Init /\ [][Next]_vars

----------------------------------------------------------------------------
(* One sample: generateECGComplex applied to every input of a grid, on a   *)
(* fresh cache, and again for the same point of the cycle k cycles later   *)

\* Phases are the multiples of 0.01 up to MaxPhaseIndex / 100
MaxPhaseIndex == 99

\* Beat numbers 0..MaxSynthBeat: the beat hash (b * 9301 + 49297) % 233280
\* advances by about 0.04 a beat, so 25 beats sweep every abnormalityFrequency
MaxSynthBeat == 24

\* The same point is asked for again up to MaxCycles cycles later
MaxCycles == 2

SynthPhases == { 100 * i : i \in 0..MaxPhaseIndex }

SynthInputs ==
    { [phase |-> ph, config |-> ConfigOf(p), beatNumber |-> b] :
        ph \in SynthPhases, p \in PathologyType, b \in 0..MaxSynthBeat }

InitSynth ==
    /\ store = EmptyStore
    /\ ids = {}
    /\ CallsIdle
    /\ ConcIdle
    /\ ECGIdle
    /\ RenderIdle
    /\ PatternIdle
    /\ SegmentsIdle
    /\ SweepIdle
    /\ input \in SynthInputs
    /\ sample = None
    /\ later = None

\* generateECGComplex(phase, config, beatNumber)
Synthesized(out) ==
    /\ sample' = [value |-> out.value, d |-> out.d,
                  showAbnormality |-> out.showAbnormality,
                  effectiveModifiers |-> out.effectiveModifiers]
    /\ store' = out.st
    /\ UNCHANGED << callVars, concVars, ecgVars, input, later, renderVars,
                    patternVars, segmentVars, sweepVars >>

Synthesize ==
    /\ sample = None
    /\ Synthesized(generateECGComplex(input.phase, input.config, input.beatNumber, store))

\* generateECGComplex(phase + k, config, beatNumber)
SynthesizedLater(k, out) ==
    /\ later' = [cycles |-> k, value |-> out.value, d |-> out.d]
    /\ store' = out.st
    /\ UNCHANGED << callVars, concVars, ecgVars, input, sample, renderVars,
                    patternVars, segmentVars, sweepVars >>

SynthesizeLater(k) ==
    /\ sample # None
    /\ later = None
    /\ SynthesizedLater(k, generateECGComplex(input.phase + k * Scale, input.config,
                                              input.beatNumber, store))

NextSynth ==
    \/ Synthesize
    \/ \E k \in 1..MaxCycles : SynthesizeLater(k)

SpecSynth == InitSynth /\ [][NextSynth]_vars

----------------------------------------------------------------------------
(* Interleaved resolver calls.  getPathologyModifiers is taken apart into  *)
(* its steps: the lookup (has), the hit (get), the switch, the insert      *)
(* (set) and the return; callers take their steps in any order.            *)

\* Callers that may be inside getPathologyModifiers at once
NumProcs == 2

\* Calls started in one run
MaxCalls == 4

Procs == 1..NumProcs

\* The keys the callers resolve: two with different non-empty records, the
\* unknown one and 'normal', which share the switch's default branch
ConcKeys == {"atrial-fibrillation", "long-qt-syndrome", "normal", UnknownPathology}

Idle == [pc |-> "idle"]

InitConc ==
    /\ store = EmptyStore
    /\ ids = {}
    /\ CallsIdle
    /\ SynthIdle
    /\ ECGIdle
    /\ RenderIdle
    /\ PatternIdle
    /\ SegmentsIdle
    /\ SweepIdle
    /\ calls = [p \in Procs |-> Idle]
    /\ started = 0

\* (`modifiers` declared outside the function: one variable for all calls,
\* holding the object the latest switch made)
LocalModifiers_Shared(own, latest) == latest

\* let modifiers: each call has its own
LocalModifiers(own, latest) == own

\* A caller enters getPathologyModifiers(k)
Enter(p, k) ==
    /\ calls[p].pc \in {"idle", "done"}
    /\ started < MaxCalls
    /\ calls' = [calls EXCEPT ![p] = [pc |-> "has", key |-> k]]
    /\ started' = started + 1
    /\ UNCHANGED << store, callVars, synthVars, ecgVars, renderVars,
                    patternVars, segmentVars, sweepVars >>

\* if (pathologyModifiersCache.has(pathology))
Has(p) ==
    /\ calls[p].pc = "has"
    /\ calls' = [calls EXCEPT ![p].pc =
                    IF CacheHas(store, calls[p].key) THEN "get" ELSE "switch"]
    /\ UNCHANGED << store, started, callVars, synthVars, ecgVars, renderVars,
                    patternVars, segmentVars, sweepVars >>

\* return pathologyModifiersCache.get(pathology)!
Get(p) ==
    /\ calls[p].pc = "get"
    /\ calls' = [calls EXCEPT ![p] =
                    [pc |-> "done", key |-> calls[p].key,
                     ret |-> store.cache[calls[p].key]]]
    /\ UNCHANGED << store, started, callVars, synthVars, ecgVars, renderVars,
                    patternVars, segmentVars, sweepVars >>

Switched(p, made) ==
    /\ store' = made.st
    /\ calls' = [calls EXCEPT ![p] =
                    [pc |-> "set", key |-> calls[p].key, modifiers |-> made.ref]]
    /\ UNCHANGED << started, callVars, synthVars, ecgVars, renderVars,
                    patternVars, segmentVars, sweepVars >>

\* switch (pathology) { ... modifiers = { ... } ... }
Switch(p) ==
    /\ calls[p].pc = "switch"
    /\ Switched(p, Allocate(store, SwitchModifiers(calls[p].key)))

\* pathologyModifiersCache.set(pathology, modifiers)
Set(p) ==
    /\ calls[p].pc = "set"
    /\ store' = CacheSet(store, calls[p].key,
                         LocalModifiers(calls[p].modifiers, Len(store.heap)))
    /\ calls' = [calls EXCEPT ![p].pc = "return"]
    /\ UNCHANGED << started, callVars, synthVars, ecgVars, renderVars,
                    patternVars, segmentVars, sweepVars >>

\* return modifiers
Return(p) ==
    /\ calls[p].pc = "return"
    /\ calls' = [calls EXCEPT ![p] =
                    [pc |-> "done", key |-> calls[p].key,
                     ret |-> LocalModifiers(calls[p].modifiers, Len(store.heap))]]
    /\ UNCHANGED << store, started, callVars, synthVars, ecgVars, renderVars,
                    patternVars, segmentVars, sweepVars >>

NextConc ==
    \/ \E p \in Procs, k \in ConcKeys : Enter(p, k)
    \/ \E p \in Procs : Has(p)
    \/ \E p \in Procs : Get(p)
    \/ \E p \in Procs : Switch(p)
    \/ \E p \in Procs : Set(p)
    \/ \E p \in Procs : Return(p)

SpecConc == InitConc /\ [][NextConc]_vars

----------------------------------------------------------------------------
(* The ECG instance: createECG and the setters of the object it returns.   *)
(* config is the object createECG's closure holds; the renderer holds a    *)
(* reference to it (shared) or, after an update*, a copy of its own.       *)

\* The number NaN: every comparison with it is false, and it is falsy
NaN == 0 - 1000000

Less(a, b) == a # NaN /\ b # NaN /\ a < b

LessEq(a, b) == a # NaN /\ b # NaN /\ a <= b

\* x || d on a number
OrElse(x, d) == IF x = 0 \/ x = NaN THEN d ELSE x

\* validPathologies of validatePathology
validPathologies ==
    {"normal", "atrial-fibrillation", "sinus-tachycardia", "sinus-bradycardia",
     "atrial-flutter", "ventricular-tachycardia", "ventricular-fibrillation",
     "hyperkalaemia"}

\* validatePathology: an absent, empty or unlisted pathology becomes 'normal'
validatePathology(given) ==
    IF given = {} THEN "normal"
    ELSE LET pathology == CHOOSE x \in given : TRUE
         IN  IF pathology = "" \/ pathology \notin validPathologies
             THEN "normal" ELSE pathology

\* (no upper bound)
validateHeartRate_NoUpper(rate) == IF Less(rate, 30) THEN 30 ELSE rate

validateHeartRate(rate) ==
    IF Less(rate, 30) THEN 30
    ELSE IF Less(300, rate) THEN 300
    ELSE rate

\* PATHOLOGY_DEFAULTS[pathology], heartRate in bpm
PATHOLOGY_DEFAULTS(pathology) ==
    CASE pathology = "normal" -> [heartRate |-> 72, amplitude |-> 10000, noise |-> 200]
      [] pathology = "sinus-tachycardia" ->
           [heartRate |-> 120, amplitude |-> 10000, noise |-> 300]
      [] pathology = "sinus-bradycardia" ->
           [heartRate |-> 50, amplitude |-> 10000, noise |-> 200]
      [] pathology = "atrial-fibrillation" ->
           [heartRate |-> 100, amplitude |-> 8000, noise |-> 1500]
      [] pathology = "atrial-flutter" ->
           [heartRate |-> 75, amplitude |-> 9000, noise |-> 500]
      [] pathology = "ventricular-tachycardia" ->
           [heartRate |-> 180, amplitude |-> 15000, noise |-> 1000]
      [] pathology = "ventricular-fibrillation" ->
           [heartRate |-> 300, amplitude |-> 5000, noise |-> 3000]
      [] pathology = "ventricular-premature-beat" ->
           [heartRate |-> 75, amplitude |-> 12000, noise |-> 500]
      [] pathology \in {"atrial-premature-beat", "st-elevation-mi",
                        "st-depression-ischemia"} ->
           [heartRate |-> 75, amplitude |-> 10000, noise |-> 300]
      [] pathology = "wolff-parkinson-white" ->
           [heartRate |-> 75, amplitude |-> 10000, noise |-> 200]
      [] pathology = "hyperkalaemia" ->
           [heartRate |-> 70, amplitude |-> 10000, noise |-> 300]
      [] pathology \in {"sinus-arrhythmia", "first-degree-av-block",
                        "second-degree-av-block-type1",
                        "second-degree-av-block-type2", "third-degree-av-block",
                        "long-qt-syndrome"} ->
           [heartRate |-> 70, amplitude |-> 10000, noise |-> 200]
      [] pathology \in PathologyType ->
           [heartRate |-> 72, amplitude |-> 10000, noise |-> 200]
      [] OTHER -> EmptyModifiers

\* getPathologyConfig: the defaults of the pathology, or those of 'normal'
getPathologyConfig(pathology) ==
    LET own      == PATHOLOGY_DEFAULTS(pathology)
        defaults == IF own = EmptyModifiers THEN PATHOLOGY_DEFAULTS("normal") ELSE own
    IN  [pathology  |-> pathology,
         heartRate  |-> OrElse(Field(defaults, "heartRate", 0), 72),
         amplitude  |-> OrElse(Field(defaults, "amplitude", 0), Scale),
         noise      |-> OrElse(Field(defaults, "noise", 0), 200),
         sampleRate |-> 250]

\* The largest heart rate a caller asks for
MaxRate == 301

\* What callers pass: options of createECG (a missing field is undefined)
\* and arguments of the setters
Rates == {NaN, 0, 29, 30, 150, 300, MaxRate}

Amplitudes == {NaN, 0 - Scale, 0, 1000, Scale}

Noises == {NaN, 0 - 500, 0, 200}

GivenPathologies ==
    {"", "normal", "atrial-fibrillation", "ventricular-fibrillation",
     "long-qt-syndrome", UnknownPathology}

\* The records with a field f for each value of V, and the one without f
Optional(f, V) == { [g \in {f} |-> v] : v \in V } \cup {EmptyModifiers}

Options ==
    { Merge(Merge(Merge(Merge([canvas |-> c], p), h), a), n) :
        c \in BOOLEAN, p \in Optional("pathology", GivenPathologies),
        h \in Optional("heartRate", Rates),
        a \in Optional("amplitude", Amplitudes), n \in Optional("noise", Noises) }

\* The value of an optional field as a set with at most one element
Given(options, f) == IF f \in DOMAIN options THEN {options[f]} ELSE {}

InitECG ==
    /\ store = EmptyStore
    /\ ids = {}
    /\ CallsIdle
    /\ SynthIdle
    /\ ConcIdle
    /\ ECGIdle
    /\ RenderIdle
    /\ PatternIdle
    /\ SegmentsIdle
    /\ SweepIdle

\* The config createECG builds from the options
createConfig(options, pathology, baseConfig) ==
    [pathology  |-> pathology,
     heartRate  |-> validateHeartRate(
                        Field(options, "heartRate", Field(baseConfig, "heartRate", 72))),
     amplitude  |-> Field(options, "amplitude", Field(baseConfig, "amplitude", Scale)),
     noise      |-> Field(options, "noise", Field(baseConfig, "noise", 200)),
     sampleRate |-> Field(baseConfig, "sampleRate", 250)]

\* new CanvasRenderer(canvas, config): the renderer keeps the reference
CanvasRenderer(config) ==
    [config |-> config, renderer |-> [config |-> config,
                                      targetPathology |-> config.pathology,
                                      lastHeartRate |-> OrElse(config.heartRate, 72)],
     shared |-> TRUE]

\* createECG(options); without a canvas it throws and there is no instance
createECG(options) ==
    /\ ecg = None
    /\ IF ~options.canvas
       THEN UNCHANGED << ecg, asked, wanted, defaulted >>
       ELSE /\ ecg' = CanvasRenderer(
                          createConfig(options,
                              validatePathology(Given(options, "pathology")),
                              getPathologyConfig(
                                  validatePathology(Given(options, "pathology")))))
            /\ asked' = Given(options, "heartRate")
            /\ wanted' = Given(options, "pathology")
            /\ defaulted' = {"heartRate", "amplitude", "noise"} \ DOMAIN options
    /\ UNCHANGED << store, called, callVars, synthVars, concVars, renderVars,
                    patternVars, segmentVars, sweepVars >>

\* An assignment config.f = v of the closure: the renderer sees it while it
\* still holds the same object
Assign(e, f, v) ==
    [e EXCEPT !.config[f] = v,
              !.renderer.config[f] = IF e.shared THEN v ELSE @]

\* this.config = { ...this.config, f: v }: the renderer's own copy from now on
UpdateCopy(e, f, v) ==
    [e EXCEPT !.renderer.config[f] = v, !.shared = FALSE]

\* (the new pathology's defaults before the instance's own values)
Repathologized_Defaults(e, validatedPathology, pathologyConfig) ==
    Assign(Assign(Assign(Assign(e,
        "pathology", validatedPathology),
        "heartRate", validateHeartRate(
                         Field(pathologyConfig, "heartRate",
                               Field(e.config, "heartRate", 72)))),
        "amplitude", Field(pathologyConfig, "amplitude",
                           Field(e.config, "amplitude", Scale))),
        "noise", Field(pathologyConfig, "noise", Field(e.config, "noise", 200)))

\* The assignments of setPathology on the closure's config
Repathologized(e, validatedPathology, pathologyConfig) ==
    Assign(Assign(Assign(Assign(e,
        "pathology", validatedPathology),
        "heartRate", validateHeartRate(
                         Field(e.config, "heartRate",
                               Field(pathologyConfig, "heartRate", 72)))),
        "amplitude", Field(e.config, "amplitude",
                           Field(pathologyConfig, "amplitude", Scale))),
        "noise", Field(e.config, "noise", Field(pathologyConfig, "noise", 200)))

\* renderer.updateConfig(config); renderer.updatePathology(validatedPathology)
Rerendered(e, validatedPathology) ==
    [e EXCEPT !.renderer.config = e.config, !.shared = TRUE,
              !.renderer.targetPathology = validatedPathology]

setPathology(given) ==
    /\ ecg # None
    /\ ecg' = Rerendered(
                  Repathologized(ecg, validatePathology(given),
                                 getPathologyConfig(validatePathology(given))),
                  validatePathology(given))
    /\ called' = called \cup {"setPathology"}
    /\ wanted' = given
    /\ UNCHANGED << store, asked, defaulted, callVars, synthVars, concVars, renderVars,
                    patternVars, segmentVars, sweepVars >>

setHeartRate(rate) ==
    /\ ecg # None
    /\ ecg' = UpdateCopy(Assign(ecg, "heartRate", validateHeartRate(rate)),
                         "heartRate", validateHeartRate(rate))
    /\ asked' = {rate}
    /\ called' = called \cup {"setHeartRate"}
    /\ defaulted' = defaulted \ {"heartRate"}
    /\ UNCHANGED << store, wanted, callVars, synthVars, concVars, renderVars,
                    patternVars, segmentVars, sweepVars >>

\* if (amplitude <= 0) amplitude = 0.1
checkedAmplitude(amplitude) == IF LessEq(amplitude, 0) THEN 1000 ELSE amplitude

\* if (noise < 0) noise = 0
checkedNoise(noise) == IF Less(noise, 0) THEN 0 ELSE noise

setAmplitude(amplitude) ==
    /\ ecg # None
    /\ ecg' = UpdateCopy(Assign(ecg, "amplitude", checkedAmplitude(amplitude)),
                         "amplitude", checkedAmplitude(amplitude))
    /\ called' = called \cup {"setAmplitude"}
    /\ defaulted' = defaulted \ {"amplitude"}
    /\ UNCHANGED << store, asked, wanted, callVars, synthVars, concVars, renderVars,
                    patternVars, segmentVars, sweepVars >>

setNoise(noise) ==
    /\ ecg # None
    /\ ecg' = UpdateCopy(Assign(ecg, "noise", checkedNoise(noise)),
                         "noise", checkedNoise(noise))
    /\ called' = called \cup {"setNoise"}
    /\ defaulted' = defaulted \ {"noise"}
    /\ UNCHANGED << store, asked, wanted, callVars, synthVars, concVars, renderVars,
                    patternVars, segmentVars, sweepVars >>

\* getHeartRate(): renderer.getHeartRate()
getHeartRate(e) == OrElse(e.renderer.config.heartRate, 72)

\* getPathology(): renderer.getPathology()
getPathology(e) == e.renderer.targetPathology

\* The config generateSampleAtTime hands to generateECGComplex
configForSample(e) ==
    Merge(e.renderer.config,
          [pathology |-> e.renderer.targetPathology,
           heartRate |-> OrElse(e.renderer.config.heartRate, 72)])

NextECG ==
    \/ \E options \in Options : createECG(options)
    \/ \E given \in GivenPathologies : setPathology({given})
    \/ \E rate \in Rates : setHeartRate(rate)
    \/ \E amplitude \in Amplitudes : setAmplitude(amplitude)
    \/ \E noise \in Noises : setNoise(noise)

SpecECG == InitECG /\ [][NextECG]_vars

----------------------------------------------------------------------------
(* The renderer's life on a page (SpecRender).  The page holds the pending *)
(* animation-frame callbacks and the resize subscriptions; time is counted *)
(* in pixels of sweep (1 pixel = timePerPixel seconds).  A cell of          *)
(* waveformBuffer is TRUE when it holds a sample and FALSE when it is NaN. *)

\* new Float32Array(2000), on the scale of Widths
InitialLength == 4

\* Widths the canvas takes from its container
Widths == {2, 3}

\* Between two draws the sweep advances up to MaxAdvance pixels
MaxAdvance == 2

\* The page issues up to MaxFrames animation-frame handles
MaxFrames == 3

\* Heart rates the setter passes
RenderRates == {60, 72}

\* waveformBuffer.fill(NaN)
Fill(buffer) == [x \in 1..Len(buffer) |-> FALSE]

\* ensureBufferSize: a buffer of the canvas' width, keeping what fits
ensureBufferSize(r) ==
    IF Len(r.waveformBuffer) # r.width
    THEN [r EXCEPT !.waveformBuffer =
             [x \in 1..r.width |->
                 x <= Len(r.waveformBuffer) /\ r.waveformBuffer[x]]]
    ELSE r

\* updateBufferRange: a sample into every column startX..endX of the canvas
updateBufferRange(buffer, startX, endX, width) ==
    [x \in 1..Len(buffer) |->
        IF x - 1 >= 0 /\ x - 1 >= startX /\ x - 1 <= endX /\ x - 1 <= width - 1
        THEN TRUE
        ELSE buffer[x]]

\* handleSweepWrap: the end of the previous cycle, the start of the new one
handleSweepWrap(buffer, startX, endX, width) ==
    updateBufferRange(updateBufferRange(buffer, startX, width - 1, width),
                      0, endX, width)

\* updateSweep, the sweep having reached sweepX with lastSweepX = lastX
sweptBuffer(r, sweepX, lastX) ==
    IF lastX < 0
    THEN updateBufferRange(r.waveformBuffer, 0, sweepX, r.width)
    ELSE IF sweepX < lastX
    THEN handleSweepWrap(r.waveformBuffer, lastX, sweepX, r.width)
    ELSE updateBufferRange(r.waveformBuffer, lastX, sweepX, r.width)

updateSweep(r, deltaTime) ==
    [r EXCEPT
        !.sweepPosition  = (r.sweepPosition + deltaTime) % r.width,
        !.lastSweepX     = (r.sweepPosition + deltaTime) % r.width,
        !.lastHeartRate  = r.config.heartRate,
        !.waveformBuffer =
            sweptBuffer(r, (r.sweepPosition + deltaTime) % r.width,
                        IF r.sweepPosition + deltaTime >= r.width
                        THEN 0 - 1 ELSE r.lastSweepX)]

\* draw's first lines: the first draw starts the clock
timed(r) ==
    IF r.lastUpdateTime = 0
    THEN [r EXCEPT !.lastUpdateTime = 1, !.sweepPosition = 0,
                   !.lastSweepX = 0 - 1]
    ELSE r

\* draw(), `elapsed` pixels of time after the previous draw
draw(r, elapsed) ==
    updateSweep(ensureBufferSize(timed(r)),
                IF r.lastUpdateTime = 0 THEN 0 ELSE elapsed)

\* resizeCanvas: the canvas takes its container's size and is redrawn
resizeCanvas(r, width, elapsed) ==
    draw(ensureBufferSize([r EXCEPT !.width = width]), elapsed)

\* requestAnimationFrame(this.animate): the handle the page returns
requestAnimationFrame(b) ==
    [b EXCEPT !.issued = b.issued + 1, !.frames = b.frames \cup {b.issued + 1}]

\* cancelAnimationFrame(id)
cancelAnimationFrame(b, id) == [b EXCEPT !.frames = b.frames \ {id}]

\* startAnimation
startAnimation(r, b) ==
    [r EXCEPT !.lastUpdateTime = 0, !.sweepPosition = 0, !.lastSweepX = 0 - 1,
              !.lastHeartRate = r.config.heartRate,
              !.waveformBuffer = Fill(r.waveformBuffer),
              !.animationFrameId = b.issued + 1]

\* The fields of a CanvasRenderer before its constructor's body
NewRenderer(heartRate) ==
    [animationFrameId |-> 0,
     config           |-> [heartRate |-> heartRate],
     waveformBuffer   |-> [x \in 1..InitialLength |-> FALSE],
     width            |-> 0,
     sweepPosition    |-> 0,
     lastUpdateTime   |-> 0,
     lastSweepX       |-> 0 - 1,
     lastHeartRate    |-> heartRate,
     resizeObserver   |-> FALSE]

\* setupCanvas: the first resizeCanvas, then a ResizeObserver on the
\* container where the page has the class, a window listener where not
setupCanvas(r, b, width) ==
    [resizeCanvas(r, width, 0) EXCEPT !.resizeObserver = b.ResizeObserver]

Subscribed(b) ==
    IF b.ResizeObserver
    THEN [b EXCEPT !.observing = TRUE]
    ELSE [b EXCEPT !.listening = TRUE]

\* draw() counted once destroy() has returned
Drawn == [destroyed EXCEPT !.drew = destroyed.done]

InitRender ==
    /\ store = EmptyStore
    /\ ids = {}
    /\ CallsIdle
    /\ SynthIdle
    /\ ConcIdle
    /\ ECGIdle
    /\ PatternIdle
    /\ SegmentsIdle
    /\ SweepIdle
    /\ renderer = None
    /\ browser \in { [ResizeObserver |-> c, frames |-> {}, observing |-> FALSE,
                      listening |-> FALSE, issued |-> 0] : c \in BOOLEAN }
    /\ destroyed = [done |-> FALSE, drew |-> FALSE]

\* new CanvasRenderer(canvas, config)
CanvasRendererNew(width, heartRate) ==
    /\ renderer = None
    /\ renderer' = startAnimation(setupCanvas(NewRenderer(heartRate), browser, width),
                                  browser)
    /\ browser' = requestAnimationFrame(Subscribed(browser))
    /\ UNCHANGED << store, destroyed, callVars, synthVars, concVars, ecgVars,
                    patternVars, segmentVars, sweepVars >>

\* The page runs the animation-frame callback with handle id
animate(id, elapsed) ==
    /\ renderer # None
    /\ id \in browser.frames
    /\ browser.issued < MaxFrames
    /\ renderer' = [draw(renderer, elapsed) EXCEPT
                       !.animationFrameId = browser.issued + 1]
    /\ browser' = requestAnimationFrame(cancelAnimationFrame(browser, id))
    /\ destroyed' = Drawn
    /\ UNCHANGED << store, callVars, synthVars, concVars, ecgVars, patternVars,
                    segmentVars, sweepVars >>

\* The ResizeObserver reports a size of the container
ContainerResize(width, elapsed) ==
    /\ renderer # None
    /\ browser.observing
    /\ renderer' = resizeCanvas(renderer, width, elapsed)
    /\ destroyed' = Drawn
    /\ UNCHANGED << store, browser, callVars, synthVars, concVars, ecgVars,
                    patternVars, segmentVars, sweepVars >>

\* The window fires 'resize'
WindowResize(width, elapsed) ==
    /\ renderer # None
    /\ browser.listening
    /\ renderer' = resizeCanvas(renderer, width, elapsed)
    /\ destroyed' = Drawn
    /\ UNCHANGED << store, browser, callVars, synthVars, concVars, ecgVars,
                    patternVars, segmentVars, sweepVars >>

\* updateHeartRate(heartRate), for the setters
updateHeartRate(heartRate) ==
    /\ renderer # None
    /\ renderer' = [renderer EXCEPT !.config.heartRate = heartRate]
    /\ UNCHANGED << store, browser, destroyed, callVars, synthVars, concVars,
                    ecgVars, patternVars, segmentVars, sweepVars >>

\* destroy()
destroy ==
    /\ renderer # None
    /\ renderer' = [renderer EXCEPT
                       !.animationFrameId = 0,
                       !.resizeObserver = FALSE,
                       !.waveformBuffer = Fill(renderer.waveformBuffer)]
    /\ browser' = [cancelAnimationFrame(browser, renderer.animationFrameId)
                      EXCEPT !.observing = browser.observing
                                              /\ ~renderer.resizeObserver]
    /\ destroyed' = [destroyed EXCEPT !.done = TRUE]
    /\ UNCHANGED << store, callVars, synthVars, concVars, ecgVars, patternVars,
                    segmentVars, sweepVars >>

NextRender ==
    \/ \E width \in Widths, heartRate \in RenderRates :
           CanvasRendererNew(width, heartRate)
    \/ \E id \in 1..MaxFrames, elapsed \in 0..MaxAdvance : animate(id, elapsed)
    \/ \E width \in Widths, elapsed \in 0..MaxAdvance :
           ContainerResize(width, elapsed)
    \/ \E width \in Widths, elapsed \in 0..MaxAdvance :
           WindowResize(width, elapsed)
    \/ \E heartRate \in RenderRates : updateHeartRate(heartRate)
    \/ destroy

SpecRender == InitRender /\ [][NextRender]_vars

----------------------------------------------------------------------------
(* shouldShowAbnormality on its own (SpecPattern): single decisions over   *)
(* a grid of modifiers and beats, and runs of consecutive beats of the      *)
(* table's intermittent pathologies, counting the beats that show it.      *)

\* Single decisions are made for the beats 0..MaxPatternBeat
MaxPatternBeat == 99

\* A run counts the beats 0..MaxTallyBeat - 1
MaxTallyBeat == 10000

\* abnormalityFrequency: negative, 0, inside (0, 1), 1 and more than 1
Frequencies == {0 - 5000, 0, 1500, 2500, 9500, Scale, Scale + 5000}

Patterns == {"random", "periodic", "clustered"}

\* abnormalityCycleLength; 0 is falsy and gives the default 4
CycleLengths == {0, 2, 3, 4, 5}

PatternModifiers ==
    { Merge(Merge(f, p), c) :
        f \in Optional("abnormalityFrequency", Frequencies),
        p \in Optional("abnormalityPattern", Patterns),
        c \in Optional("abnormalityCycleLength", CycleLengths) }

\* The table's pathologies with an abnormalityFrequency
Intermittent ==
    { p \in PathologyType : "abnormalityFrequency" \in DOMAIN SwitchModifiers(p) }

InitPattern ==
    /\ store = EmptyStore
    /\ ids = {}
    /\ CallsIdle
    /\ SynthIdle
    /\ ConcIdle
    /\ ECGIdle
    /\ RenderIdle
    /\ SegmentsIdle
    /\ SweepIdle
    /\ \/ /\ decision \in { [modifiers |-> m, beatNumber |-> b, shows |-> {}] :
                              m \in PatternModifiers, b \in 0..MaxPatternBeat }
          /\ tally = None
       \/ /\ decision = None
          /\ tally \in { [pathology |-> p, beats |-> 0, shown |-> 0] :
                           p \in Intermittent }

\* One call shouldShowAbnormality(beatNumber, modifiers)
Decide ==
    /\ decision # None
    /\ decision.shows = {}
    /\ decision' = [decision EXCEPT !.shows =
                       {shouldShowAbnormality(decision.beatNumber, decision.modifiers)}]
    /\ UNCHANGED << store, tally, callVars, synthVars, concVars, ecgVars,
                    renderVars, segmentVars, sweepVars >>

\* The next beat of a run
Count ==
    /\ tally # None
    /\ tally.beats < MaxTallyBeat
    /\ tally' = [tally EXCEPT
                    !.beats = tally.beats + 1,
                    !.shown = IF shouldShowAbnormality(tally.beats,
                                     SwitchModifiers(tally.pathology))
                              THEN tally.shown + 1
                              ELSE tally.shown]
    /\ UNCHANGED << store, decision, callVars, synthVars, concVars, ecgVars,
                    renderVars, segmentVars, sweepVars >>

NextPattern == Decide \/ Count

SpecPattern == InitPattern /\ [][NextPattern]_vars

----------------------------------------------------------------------------
(* The five segment generators on their own (SpecSegments): each is called *)
(* with the table's record of a pathology at one phase of a fine grid      *)
(* that reaches a little before 0 and beyond 1.                             *)

\* Phases are the multiples of 0.001 from -0.05 to MaxSegmentIndex / 1000 - 0.05
MaxSegmentIndex == 1100

\* Beat numbers 0..MaxSegmentBeat
MaxSegmentBeat == 1

SegmentPhases == { 10 * i - 500 : i \in 0..MaxSegmentIndex }

\* On three phases of the QRS complex (0.22, 0.25, 0.28) the beat numbers go
\* up to MaxJitterBeat: (b * 9301 + 49297) % 200 takes each of its 200 values
\* once in 200 consecutive beats
MaxJitterBeat == 199

JitterPhases == { 2200, 2500, 2800 }

SegmentInputs ==
    { [phase |-> ph, config |-> ConfigOf(p), beatNumber |-> b] :
        ph \in SegmentPhases, p \in PathologyType, b \in 0..MaxSegmentBeat }
    \cup
    { [phase |-> ph, config |-> ConfigOf(p), beatNumber |-> b] :
        ph \in JitterPhases, p \in PathologyType, b \in 0..MaxJitterBeat }

InitSegments ==
    /\ store = EmptyStore
    /\ ids = {}
    /\ CallsIdle
    /\ ConcIdle
    /\ ECGIdle
    /\ RenderIdle
    /\ PatternIdle
    /\ SweepIdle
    /\ input \in SegmentInputs
    /\ sample = None
    /\ later = None
    /\ segments = None

\* The five generators called with the same phase, modifiers and beat
Segmented(phase, modifiers, beatNumber) ==
    [p   |-> generatePWave(phase, modifiers),
     pr  |-> generatePRSegment(phase, modifiers, beatNumber),
     qrs |-> generateQRSComplex(phase, modifiers, beatNumber),
     st  |-> generateSTSegment(phase, modifiers),
     t   |-> generateTWave(phase, modifiers)]

Segment ==
    /\ segments = None
    /\ segments' = Segmented(input.phase, SwitchModifiers(input.config.pathology),
                             input.beatNumber)
    /\ UNCHANGED << store, callVars, synthVars, concVars, ecgVars, renderVars,
                    patternVars, sweepVars >>

NextSegments == Segment

SpecSegments == InitSegments /\ [][NextSegments]_vars

----------------------------------------------------------------------------
(* The AV-dissociation branch on its own (SpecDissociation): it is entered  *)
(* with effective modifiers that set avDissociation, with or without a      *)
(* ventricularRate, at several heart rates.                                 *)

\* Phases are the multiples of 0.01 from 0 to MaxDissociationIndex / 100
MaxDissociationIndex == 300

\* Beat numbers 0..MaxDissociationBeat
MaxDissociationBeat == 1

DissociationRates == {60, 72, 100}

\* ventricularRate as the modifiers give it; 0 stands for none given
VentricularRates == {0, 30, 40, 50}

DissociationModifiers(ventricularRate) ==
    IF ventricularRate = 0
    THEN [avDissociation |-> TRUE]
    ELSE [avDissociation |-> TRUE, ventricularRate |-> ventricularRate]

DissociationInputs ==
    { [phase |-> 100 * i,
       config |-> [pathology |-> "third-degree-av-block", heartRate |-> hr,
                   amplitude |-> Scale, noise |-> 0],
       beatNumber |-> b,
       modifiers |-> DissociationModifiers(vr)] :
        i \in 0..MaxDissociationIndex, hr \in DissociationRates,
        vr \in VentricularRates, b \in 0..MaxDissociationBeat }

InitDissociation ==
    /\ store = EmptyStore
    /\ ids = {}
    /\ CallsIdle
    /\ ConcIdle
    /\ ECGIdle
    /\ RenderIdle
    /\ PatternIdle
    /\ SweepIdle
    /\ input \in DissociationInputs
    /\ sample = None
    /\ later = None
    /\ segments = None

\* The branch entered with the call's values and the effective modifiers: the
\* two contributions and their sum
Dissociated(c, eff) ==
    [p     |-> atrialContribution(c, eff),
     rest  |-> ventricularContribution(c, eff,
                   ventricularPhaseOf(c.phase, c.heartRate, eff.obj)),
     whole |-> avDissociation(c, eff).seg]

Dissociate ==
    /\ segments = None
    /\ segments' = Dissociated([phase |-> input.phase,
                                heartRate |-> input.config.heartRate,
                                currentBeatNumber |-> input.beatNumber],
                               [st |-> store, obj |-> input.modifiers])
    /\ UNCHANGED << store, callVars, synthVars, concVars, ecgVars, renderVars,
                    patternVars, sweepVars >>

NextDissociation == Dissociate

SpecDissociation == InitDissociation /\ [][NextDissociation]_vars

----------------------------------------------------------------------------
(* The renderer sampling a third-degree AV block pixel after pixel         *)
(* (SpecSweep).  Time is the pixel index: getTimeForPixel gives            *)
(* pixel / pixelsPerSecond seconds, so a beat is 6000 / heartRate pixels   *)
(* and time / secondsPerBeat = pixel * heartRate / 6000, taken exactly.    *)

\* The beats 0..MaxSweepBeat - 1 are sampled
MaxSweepBeat == 3

\* Heart rates with a whole number of pixels to the beat
SweepRates == {60, 75, 100}

SweepConfig(heartRate) ==
    [pathology |-> "third-degree-av-block", heartRate |-> heartRate,
     amplitude |-> Scale, noise |-> 200]

\* (timeInSeconds % secondsPerBeat) / secondsPerBeat, then
\* (phase + this.phaseOffset) % 1
samplePhase(pixel, heartRate, phaseOffset) ==
    JsMod((JsMod(pixel * heartRate, 6000) * Scale) \div 6000 + phaseOffset, Scale)

\* Math.floor(timeInSeconds / secondsPerBeat)
sampleBeatNumber(pixel, heartRate) == (pixel * heartRate) \div 6000

\* generateSampleAtTime(timeInSeconds) on store st
generateSampleAtTime(e, phaseOffset, pixel, st) ==
    generateECGComplex(samplePhase(pixel, configForSample(e).heartRate, phaseOffset),
                       configForSample(e),
                       sampleBeatNumber(pixel, configForSample(e).heartRate), st)

\* Where in the beat the P wave and the QRS complex of the AV-dissociation
\* branch contribute: the phases at which each is non-zero, per beat
Marked(seen, phase, heartRate, modifiers, beatNumber) ==
    [p   |-> IF generatePWave(atrialPhaseOf(phase, heartRate), modifiers).v # 0
             THEN seen.p \cup {phase} ELSE seen.p,
     qrs |-> IF generateQRSComplex(ventricularPhaseOf(phase, heartRate, modifiers),
                                   modifiers, beatNumber).v # 0
             THEN seen.qrs \cup {phase} ELSE seen.qrs]

Observed(beats, phase, heartRate, modifiers, beatNumber) ==
    IF beatNumber + 1 > Len(beats)
    THEN Append(beats, Marked([p |-> {}, qrs |-> {}], phase, heartRate, modifiers,
                              beatNumber))
    ELSE [beats EXCEPT ![beatNumber + 1] =
             Marked(beats[beatNumber + 1], phase, heartRate, modifiers, beatNumber)]

InitSweep ==
    /\ store = EmptyStore
    /\ ids = {}
    /\ CallsIdle
    /\ SynthIdle
    /\ ConcIdle
    /\ ECGIdle
    /\ RenderIdle
    /\ PatternIdle
    /\ SegmentsIdle
    /\ sweep \in { [ecg |-> CanvasRenderer(SweepConfig(heartRate)), phaseOffset |-> 0,
                    pixel |-> 0, value |-> 0, beats |-> << >>] :
                     heartRate \in SweepRates }

\* The sample of the next pixel
Swept(heartRate, out) ==
    /\ sweep' = [sweep EXCEPT
                    !.pixel = sweep.pixel + 1,
                    !.value = out.value,
                    !.beats = Observed(sweep.beats,
                                       samplePhase(sweep.pixel, heartRate,
                                                   sweep.phaseOffset),
                                       heartRate,
                                       SwitchModifiers(configForSample(sweep.ecg).pathology),
                                       sampleBeatNumber(sweep.pixel, heartRate))]
    /\ store' = out.st
    /\ UNCHANGED << callVars, synthVars, concVars, ecgVars, renderVars,
                    patternVars,
                    segmentVars >>

Sweep ==
    /\ sweep # None
    /\ sampleBeatNumber(sweep.pixel, configForSample(sweep.ecg).heartRate) < MaxSweepBeat
    /\ Swept(configForSample(sweep.ecg).heartRate,
             generateSampleAtTime(sweep.ecg, sweep.phaseOffset, sweep.pixel, store))

NextSweep == Sweep

SpecSweep == InitSweep /\ [][NextSweep]_vars

----------------------------------------------------------------------------
(* The sweep writing the trace (SpecTrace): frames advance the sweep a      *)
(* whole number of pixels over a canvas of fixed width, and the heart rate  *)
(* setter is called between frames.  Time is counted in pixels (1 pixel =   *)
(* timePerPixel seconds); a cell of waveformBuffer holds the time of the    *)
(* sample written to it, or NaN.                                            *)

\* canvas.width
TraceWidth == 5

\* Between two draws the sweep advances up to MaxTraceAdvance pixels
MaxTraceAdvance == 2

\* sampleTime goes up to MaxTraceTime pixels
MaxTraceTime == 12

\* Heart rates with a whole number of pixels to the beat and an exact phase
\* at every pixel
TraceRates == {60, 75, 120}

\* getTimeForPixel: (wraps * width + xPos) / pixelsPerSecond, with
\* wraps = floor(sampleTime * pixelsPerSecond / width)
getTimeForPixel(r, xPos) == (r.sampleTime \div r.width) * r.width + xPos

\* (currentTime % secondsPerBeat) / secondsPerBeat of updatePhaseOffset
beatPhase(currentTime, heartRate) ==
    (JsMod(currentTime * heartRate, 6000) * Scale) \div 6000

\* updatePhaseOffset(sweepX, width)
updatePhaseOffset(r, sweepX) ==
    IF r.config.heartRate = r.lastHeartRate
    THEN r
    ELSE [r EXCEPT
             !.phaseOffset =
                 JsMod(beatPhase(sweepX, r.lastHeartRate)
                       - beatPhase(sweepX, r.config.heartRate) + Scale, Scale),
             !.lastHeartRate = r.config.heartRate]

\* updateBufferRange with updateBufferAtPosition: the sample of
\* getTimeForPixel(xPos) into every column startX..endX of the canvas
sampledRange(r, startX, endX) ==
    [r EXCEPT !.waveformBuffer =
        [x \in 1..Len(r.waveformBuffer) |->
            IF x - 1 >= 0 /\ x - 1 >= startX /\ x - 1 <= endX /\ x - 1 <= r.width - 1
            THEN getTimeForPixel(r, x - 1)
            ELSE r.waveformBuffer[x]]]

\* The samples for the pixels the sweep moved through; `wrapped` tells
\* whether updateSweep has just set lastSweepX to -1
sampledSweep(r, sweepX, wrapped) ==
    IF wrapped \/ r.lastSweepX < 0
    THEN sampledRange(r, 0, sweepX)
    ELSE IF sweepX < r.lastSweepX
    THEN sampledRange(sampledRange(r, r.lastSweepX, r.width - 1), 0, sweepX)
    ELSE sampledRange(r, r.lastSweepX, sweepX)

\* The columns from the sweep position `from` on, `deltaTime` pixels forward
\* (history)
movedThrough(from, deltaTime, width) ==
    { x \in 0..width - 1 :
        \/ from <= x /\ x <= from + deltaTime
        \/ x + width <= from + deltaTime }

\* updateSweep on the trace, with what the frame started from (history: the
\* columns moved through, the heart rate and offset before the frame)
tracedSweep(r, deltaTime) ==
    [sampledSweep(
         updatePhaseOffset([r EXCEPT !.sweepPosition = (r.sweepPosition + deltaTime) % r.width,
                                     !.sampleTime = r.sampleTime + deltaTime],
                           (r.sweepPosition + deltaTime) % r.width),
         (r.sweepPosition + deltaTime) % r.width,
         r.sweepPosition + deltaTime >= r.width)
     EXCEPT !.lastSweepX = (r.sweepPosition + deltaTime) % r.width,
            !.moved  = movedThrough(r.sweepPosition, deltaTime, r.width),
            !.before = [heartRate |-> r.lastHeartRate, phaseOffset |-> r.phaseOffset],
            !.frames = 1]

\* The fields startAnimation leaves
TracedRenderer(heartRate) ==
    [config         |-> [heartRate |-> heartRate],
     width          |-> TraceWidth,
     waveformBuffer |-> [x \in 1..TraceWidth |-> NaN],
     sweepPosition  |-> 0,
     sampleTime     |-> 0,
     lastSweepX     |-> 0 - 1,
     lastHeartRate  |-> heartRate,
     phaseOffset    |-> 0,
     moved          |-> {},
     before         |-> [heartRate |-> heartRate, phaseOffset |-> 0],
     frames         |-> 0]

InitTrace ==
    /\ store = EmptyStore
    /\ ids = {}
    /\ CallsIdle
    /\ SynthIdle
    /\ ConcIdle
    /\ ECGIdle
    /\ PatternIdle
    /\ SegmentsIdle
    /\ SweepIdle
    /\ renderer \in { TracedRenderer(heartRate) : heartRate \in TraceRates }
    /\ browser = None
    /\ destroyed = None

\* A draw, deltaTime pixels of time after the previous one
TraceFrame(deltaTime) ==
    /\ renderer.sampleTime + deltaTime <= MaxTraceTime
    /\ renderer' = tracedSweep(renderer, deltaTime)
    /\ UNCHANGED << store, browser, destroyed, callVars, synthVars, concVars,
                    ecgVars, patternVars, segmentVars, sweepVars >>

\* updateHeartRate(heartRate) between two draws
TraceHeartRate(heartRate) ==
    /\ renderer' = [renderer EXCEPT !.config.heartRate = heartRate]
    /\ UNCHANGED << store, browser, destroyed, callVars, synthVars, concVars,
                    ecgVars, patternVars, segmentVars, sweepVars >>

NextTrace ==
    \/ \E deltaTime \in 0..MaxTraceAdvance : TraceFrame(deltaTime)
    \/ \E heartRate \in TraceRates : TraceHeartRate(heartRate)

SpecTrace == InitTrace /\ [][NextTrace]_vars

----------------------------------------------------------------------------
(* Claims on the resolver and on sequences of synthesis calls (Spec) *)

\* C1: determinism.  Every call of generateECGComplex with the (phase,
\* config, beatNumber) of the run's first call returns the value the first
\* call returned, whatever calls were made in between.
C1_Determinism == Cardinality(repeats) <= 1

\* The first input was passed again after other calls, a second identifier
\* is cached, and the beat in question hides the abnormality
C1_Witness ==
    /\ first # None
    /\ first.again
    /\ Cardinality(DOMAIN store.cache) = 2
    /\ first.input.config.pathology = "wolff-parkinson-white"
    /\ first.input.beatNumber = 0
    /\ first.value # 0

\* C3: resolver round trip.  The references direct getPathologyModifiers(x)
\* calls return are all the one reference the cache holds for x, and the
\* object behind it equals, field by field, what the switch produces for x.
C3_RoundTrip ==
    \A k \in DOMAIN returned :
        \A i \in 1..Len(returned[k]) :
            /\ CacheHas(store, k)
            /\ returned[k][i] = store.cache[k]
            /\ store.heap[returned[k][i]] = SwitchModifiers(k)

\* Some identifier with a non-empty record was resolved twice
C3_Witness ==
    \E k \in DOMAIN returned :
        /\ Len(returned[k]) = 2
        /\ returned[k][1] = returned[k][2]
        /\ SwitchModifiers(k) # EmptyModifiers

\* C4: the cache is write-once per key.  Every step keeps every key of the
\* cache and the reference it maps to; entries are only added.
C4_WriteOnce ==
    [][\A k \in DOMAIN store.cache :
          /\ k \in DOMAIN store'.cache
          /\ store'.cache[k] = store.cache[k]]_vars

\* Two keys are cached, one of them was resolved again (a hit) and a sample
\* was synthesized again
C4_Witness ==
    /\ Cardinality(DOMAIN store.cache) = 2
    /\ \E k \in DOMAIN returned : Len(returned[k]) = 2
    /\ first # None
    /\ first.again

\* C5: resolved modifiers are immutable.  No step changes an object on the
\* heap, so every cached record keeps all its fields, and in every state
\* each cached record equals the switch's entry for its key.
C5_Immutable ==
    /\ [](\A k \in DOMAIN store.cache :
             store.heap[store.cache[k]] = SwitchModifiers(k))
    /\ [][\A r \in 1..Len(store.heap) :
             /\ r <= Len(store'.heap)
             /\ store'.heap[r] = store.heap[r]]_vars

\* Both spreads ran: a beat of pathological-q-waves that hides the
\* abnormality was synthesized (first), and long-qt-syndrome, whose T wave
\* takes the QT-adjusted copy, was synthesized too (it is cached though no
\* caller resolved it directly); the first record was resolved afterwards
C5_Witness ==
    /\ first # None
    /\ first.between
    /\ first.input.config.pathology = "pathological-q-waves"
    /\ ~shouldShowAbnormality(first.input.beatNumber,
                              SwitchModifiers("pathological-q-waves"))
    /\ "pathological-q-waves" \in DOMAIN returned
    /\ "long-qt-syndrome" \in DOMAIN store.cache
    /\ "long-qt-syndrome" \notin DOMAIN returned

\* C7: the resolver is total.  An identifier outside PathologyType resolves
\* to the empty record, the one 'normal' resolves to.
C7_UnknownIsNormal ==
    \A k \in DOMAIN returned :
        k \notin PathologyType =>
            \A i \in 1..Len(returned[k]) :
                /\ store.heap[returned[k][i]] = EmptyModifiers
                /\ store.heap[returned[k][i]] = CaseModifiers("normal")

\* The unknown identifier was resolved, and synthesized with
C7_Witness ==
    /\ UnknownPathology \in DOMAIN returned
    /\ Len(returned[UnknownPathology]) = 2
    /\ first # None
    /\ first.input.config.pathology = UnknownPathology

----------------------------------------------------------------------------
(* Claims on single samples (SpecSynth) *)

\* C2 (as claimed): only phase mod 1 is used.  For every pathology of the
\* table, generateECGComplex(p + k, config, b) returns the value of
\* generateECGComplex(p, config, b).
C2_PhaseMod1 == later # None => later.value = sample.value

\* C8: generateECGComplex is total.  No division a call executes (by the QRS
\* duration, the T-wave window, the PR window, droppedBeats) has a zero
\* divisor, for every pathology of the table, ventricular-fibrillation with
\* its qrsWidth of 0 included.
C8_NoZeroDivisor ==
    /\ sample # None => 0 \notin sample.d
    /\ later # None => 0 \notin later.d

\* ventricular-fibrillation (qrsWidth 0) was sampled at phase 0.20 and whole
\* cycles later: its QRS window [0.20, 0.20) is empty, so the division by
\* the QRS duration is not among the divisions executed
C8_Witness ==
    /\ sample # None
    /\ later # None
    /\ input.config.pathology = "ventricular-fibrillation"
    /\ input.phase = 2000
    /\ SwitchModifiers("ventricular-fibrillation").qrsWidth = 0
    /\ sample.d = {}

----------------------------------------------------------------------------
(* Claims on interleaved resolver calls (SpecConc) *)

\* C6: concurrent resolution is harmless.  However the steps of the calls
\* interleave, every finished call returned a record equal to the switch's
\* entry for its own key, and every key of the cache maps to a record equal
\* to the switch's entry for that key.
C6_RaceHarmless ==
    /\ \A p \in DOMAIN calls :
           calls[p].pc = "done" =>
               store.heap[calls[p].ret] = SwitchModifiers(calls[p].key)
    /\ \A k \in DOMAIN store.cache :
           store.heap[store.cache[k]] = SwitchModifiers(k)

\* A race happened: two calls for the same key both missed and both ran the
\* switch (they returned different objects), while a call for another key
\* was made as well
C6_Witness ==
    /\ \E p, q \in DOMAIN calls :
           /\ calls[p].pc = "done"
           /\ calls[q].pc = "done"
           /\ calls[p].key = calls[q].key
           /\ calls[p].ret # calls[q].ret
           /\ SwitchModifiers(calls[p].key) # EmptyModifiers
    /\ Cardinality(DOMAIN store.cache) >= 2

----------------------------------------------------------------------------
(* Claims on the ECG instance (SpecECG) *)

\* C9: the heart rate is always clamped.  Once the instance exists, whatever
\* setters were called, getHeartRate() is within [30, 300]; a rate asked for
\* below 30 reads back as 30 and one above 300 as 300.
C9_HeartRateClamped ==
    ecg # None =>
        /\ getHeartRate(ecg) \in 30..300
        /\ \A rate \in asked :
               /\ Less(rate, 30) => getHeartRate(ecg) = 30
               /\ Less(300, rate) => getHeartRate(ecg) = 300

\* A rate above 300 was asked for, and every other setter was called since
C9_Witness ==
    /\ ecg # None
    /\ \E rate \in asked : Less(300, rate)
    /\ called = {"setPathology", "setHeartRate", "setAmplitude", "setNoise"}
    /\ getHeartRate(ecg) = 300

\* C10 (as claimed): every config the instance hands to the synthesizer has
\* amplitude > 0 and noise >= 0, from createECG(options) on and after any
\* setAmplitude / setNoise calls.
C10_AmplitudeNoiseValid ==
    ecg # None =>
        /\ Less(0, configForSample(ecg).amplitude)
        /\ LessEq(0, configForSample(ecg).noise)

\* C11 (as claimed): every identifier of the README's list of supported
\* pathologies (PathologyType) is accepted.  After createECG({pathology: p})
\* or setPathology(p), getPathology() is p when p is on the list and 'normal'
\* when it is not.
C11_ListedAccepted ==
    ecg # None =>
        \A p \in wanted :
            getPathology(ecg) = IF p \in PathologyType THEN p ELSE "normal"

\* C12 (as claimed): right after createECG(options), before any setter, an
\* amplitude the options do not give is the documented default 1.0 whatever
\* the pathology, while a heartRate or noise the options do not give is the
\* pathology's own table value (heartRate through validateHeartRate).
C12_AmplitudeDefaultOne ==
    (ecg # None /\ called = {}) =>
        /\ "amplitude" \in defaulted =>
               configForSample(ecg).amplitude = Scale
        /\ "heartRate" \in defaulted =>
               configForSample(ecg).heartRate =
                   validateHeartRate(getPathologyConfig(getPathology(ecg)).heartRate)
        /\ "noise" \in defaulted =>
               configForSample(ecg).noise =
                   getPathologyConfig(getPathology(ecg)).noise

\* C13 (as claimed): destroy() stops rendering for good.  Once destroy() has
\* returned no draw() executes, no animation frame is pending, animationFrameId
\* is null and every cell of the waveform buffer is NaN, whatever the page
\* does next (animation frames, container or window resizes, setter calls).
C13_DestroyStops ==
    (destroyed # None /\ destroyed.done) =>
        /\ ~destroyed.drew
        /\ browser.frames = {}
        /\ renderer.animationFrameId = 0
        /\ renderer.waveformBuffer = Fill(renderer.waveformBuffer)

----------------------------------------------------------------------------
(* Claims on shouldShowAbnormality (SpecPattern) *)

\* C14: periodic pattern.  With abnormalityPattern 'periodic', a cycle length
\* of 4 and a frequency strictly between 0 and 1, shouldShowAbnormality(b) is
\* true exactly when b mod 4 = 3, for every beat b of 0..99.
C14_PeriodicEveryFourth ==
    (/\ decision # None
     /\ decision.shows # {}
     /\ Field(decision.modifiers, "abnormalityPattern", "random") = "periodic"
     /\ Field(decision.modifiers, "abnormalityCycleLength", 0) = 4
     /\ Field(decision.modifiers, "abnormalityFrequency", 0) > 0
     /\ Field(decision.modifiers, "abnormalityFrequency", 0) < Scale)
        => decision.shows = {decision.beatNumber % 4 = 3}

\* Beat 99 of a periodic pattern of cycle length 4 was decided: shown
C14_Witness ==
    /\ decision # None
    /\ decision.beatNumber = 99
    /\ decision.modifiers = [abnormalityFrequency |-> 2500,
                             abnormalityPattern |-> "periodic",
                             abnormalityCycleLength |-> 4]
    /\ decision.shows = {TRUE}

\* C15: random pattern.  The fraction of beats on which the hash-driven
\* decision shows the abnormality is within 0.02 of the frequency: 0.15 over
\* the beats 0..9999 of atrial-premature-beat, 0.22 over the beats 0..999 of
\* wolff-parkinson-white.
C15_RandomFraction ==
    tally # None =>
        /\ (tally.pathology = "atrial-premature-beat" /\ tally.beats = 10000) =>
               /\ tally.shown * Scale - 1500 * tally.beats <= 200 * tally.beats
               /\ 1500 * tally.beats - tally.shown * Scale <= 200 * tally.beats
        /\ (tally.pathology = "wolff-parkinson-white" /\ tally.beats = 1000) =>
               /\ tally.shown * Scale - 2200 * tally.beats <= 200 * tally.beats
               /\ 2200 * tally.beats - tally.shown * Scale <= 200 * tally.beats

\* The 10000 beats of atrial-premature-beat were counted: 1497 premature
C15_Witness ==
    /\ tally # None
    /\ tally.pathology = "atrial-premature-beat"
    /\ SwitchModifiers(tally.pathology).abnormalityFrequency = 1500
    /\ tally.beats = 10000
    /\ tally.shown = 1497

\* C20: the edges of the frequency.  shouldShowAbnormality is true on every
\* beat when abnormalityFrequency is unset or at least 1, and false on every
\* beat when it is 0 or less, whatever the pattern and the cycle length.
C20_FrequencyEdges ==
    (decision # None /\ decision.shows # {}) =>
        /\ "abnormalityFrequency" \notin DOMAIN decision.modifiers
               => decision.shows = {TRUE}
        /\ Field(decision.modifiers, "abnormalityFrequency", 0) >= Scale
               => decision.shows = {TRUE}
        /\ ("abnormalityFrequency" \in DOMAIN decision.modifiers
                /\ decision.modifiers["abnormalityFrequency"] <= 0)
               => decision.shows = {FALSE}

\* A frequency of exactly 1 on beat 0 of a periodic pattern, which its cycle
\* alone would hide: shown
C20_Witness ==
    /\ decision # None
    /\ decision.beatNumber = 0
    /\ decision.modifiers = [abnormalityFrequency |-> Scale,
                             abnormalityPattern |-> "periodic",
                             abnormalityCycleLength |-> 5]
    /\ decision.shows = {TRUE}

----------------------------------------------------------------------------
(* Claims on single samples (SpecSynth), continued *)

\* C16: dropped-beat cadence.  For second-degree-av-block-type1
\* (droppedBeats 0.25, cycle length 4) beat b is dropped exactly when
\* b mod 4 = 3.  On a dropped beat the sample is (P wave + PR segment + noise)
\* times amplitude, so from phase (mod 1) 0.20 on it is the noise alone and no QRS or
\* T division is executed; on every other beat the QRS, ST and T
\* contributions are added as well.
C16_DroppedCadence ==
    (/\ input # None
     /\ sample # None
     /\ input.config.pathology = "second-degree-av-block-type1")
        => LET phase     == JsMod(input.phase, Scale)
               modifiers == SwitchModifiers(input.config.pathology)
               noise     == noiseTerm(phase, input.config.noise)
           IN  IF input.beatNumber % 4 = 3
               THEN /\ sample.value =
                         FMul(generatePWave(phase, modifiers).v
                              + generatePRSegment(phase, modifiers, input.beatNumber).v
                              + noise,
                              input.config.amplitude)
                    /\ phase >= 2000 =>
                           /\ sample.value = FMul(noise, input.config.amplitude)
                           /\ sample.d = {2500}
               ELSE /\ sample.value =
                         FMul(generatePWave(phase, modifiers).v
                              + generatePRSegment(phase, modifiers, input.beatNumber).v
                              + generateQRSComplex(phase, modifiers, input.beatNumber).v
                              + generateSTSegment(phase, modifiers).v
                              + generateTWave(phase, modifiers).v
                              + noise,
                              input.config.amplitude)
                    /\ (phase >= 2000 /\ phase < 2800) => 800 \in sample.d
                    /\ (phase >= 4000 /\ phase < 6000) => 2000 \in sample.d

\* Beat 3 at phase 0.23, where a conducted beat has its R wave: noise alone
C16_Witness ==
    /\ input # None
    /\ sample # None
    /\ input.config.pathology = "second-degree-av-block-type1"
    /\ input.beatNumber = 3
    /\ input.phase = 2300
    /\ generateQRSComplex(input.phase, SwitchModifiers(input.config.pathology),
                          input.beatNumber).v > 5000
    /\ sample.value = FMul(noiseTerm(input.phase, input.config.noise),
                           input.config.amplitude)

\* C17 (as claimed): the normal-rhythm scenario.  For {normal, 72 bpm,
\* amplitude 1.0, noise 0.02} and beat 0, phase 0.30 lies within the QRS
\* window, and the sample there is the Q-R-S piecewise-linear value times the
\* beat's jitter, plus the phase-seeded noise term.
C17_QRSAtPhase030 ==
    (/\ input # None
     /\ sample # None
     /\ input.config = ConfigOf("normal")
     /\ input.beatNumber = 0
     /\ input.phase = 3000)
        => /\ InWindow(input.phase, 2000,
                       2000 + FMul(800, Field(SwitchModifiers("normal"),
                                              "qrsWidth", Scale)))
           /\ sample.value =
                  FMul(Scaled(qrsShape("normal", FDiv(input.phase - 2000, 800)),
                              Scale, amplitudeVariation(input.beatNumber))
                       + noiseTerm(input.phase, input.config.noise),
                       input.config.amplitude)

\* C17 (amended): for the same config and beat, phase 0.30 lies within the ST
\* segment [0.28, 0.40) that follows the QRS window [0.20, 0.28): the sample
\* there is the ST offset (0 for normal) plus the noise term and no QRS
\* division is executed; the Q-R-S piecewise value times the jitter, plus the
\* noise term, is the sample at the phases of [0.20, 0.28).
C17_STAtPhase030 ==
    (/\ input # None
     /\ sample # None
     /\ input.config = ConfigOf("normal")
     /\ input.beatNumber = 0)
        => /\ input.phase = 3000 =>
                  /\ InWindow(input.phase, 2800, 4000)
                  /\ sample.value =
                         FMul(Field(SwitchModifiers("normal"), "stSegmentElevation", 0)
                              + noiseTerm(input.phase, input.config.noise),
                              input.config.amplitude)
                  /\ sample.d = {}
           /\ (input.phase >= 2000 /\ input.phase < 2800) =>
                  sample.value =
                      FMul(Scaled(qrsShape("normal", FDiv(input.phase - 2000, 800)),
                                  Scale, amplitudeVariation(input.beatNumber))
                           + noiseTerm(input.phase, input.config.noise),
                           input.config.amplitude)

\* The sample of the scenario at phase 0.30: the noise term alone, not what
\* the Q-R-S formula gives there
C17_Witness ==
    /\ input # None
    /\ sample # None
    /\ input.config = ConfigOf("normal")
    /\ input.beatNumber = 0
    /\ input.phase = 3000
    /\ sample.value = FMul(noiseTerm(3000, 200), Scale)
    /\ sample.value #
           FMul(Scaled(qrsShape("normal", FDiv(1000, 800)), Scale, amplitudeVariation(0))
                + noiseTerm(3000, 200), Scale)

----------------------------------------------------------------------------
(* Claims on the segment generators (SpecSegments) *)

\* C18: segment locality.  generatePWave is 0 at every phase outside
\* [0, 0.14); generateQRSComplex, generateSTSegment and generateTWave are 0
\* outside [0.20, qrsEnd), [qrsEnd, stEnd) and [stEnd, tEnd), where
\* qrsEnd = 0.20 + 0.08 * qrsWidth, stEnd = qrsEnd + 0.12 * stSegmentDuration
\* and tEnd = stEnd + 0.20 * tWaveWidth; the three windows follow one another
\* without overlap, so at most one of QRS, ST and T is non-zero at any phase,
\* for every record of the table.
C18_SegmentLocality ==
    (input # None /\ segments # None) =>
        LET modifiers == SwitchModifiers(input.config.pathology)
            qrsEnd == 2000 + FMul(800, Field(modifiers, "qrsWidth", Scale))
            stEnd  == qrsEnd + FMul(1200, Field(modifiers, "stSegmentDuration", Scale))
            tEnd   == stEnd + FMul(2000, Field(modifiers, "tWaveWidth", Scale))
        IN  /\ ~(input.phase >= 0 /\ input.phase < 1400) => segments.p.v = 0
            /\ ~(input.phase >= 2000 /\ input.phase < qrsEnd) => segments.qrs.v = 0
            /\ ~(input.phase >= qrsEnd /\ input.phase < stEnd) => segments.st.v = 0
            /\ ~(input.phase >= stEnd /\ input.phase < tEnd) => segments.t.v = 0
            /\ 2000 <= qrsEnd /\ qrsEnd <= stEnd /\ stEnd <= tEnd
            /\ Cardinality({ g \in {"qrs", "st", "t"} : segments[g].v # 0 }) <= 1

\* Phase 0.399, inside the ST window of st-elevation-mi: the ST segment alone
\* contributes
C18_Witness ==
    /\ input # None
    /\ segments # None
    /\ input.config.pathology = "st-elevation-mi"
    /\ input.phase = 3990
    /\ segments.st.v = SwitchModifiers("st-elevation-mi").stSegmentElevation
    /\ segments.st.v # 0
    /\ segments.qrs.v = 0
    /\ segments.t.v = 0

----------------------------------------------------------------------------
(* Claims on the renderer's sampling (SpecSweep) *)

\* C19 (as claimed): AV-dissociation independence.  With third-degree-av-block
\* sampled beat after beat as the renderer does, the atrial and the
\* ventricular phase are not locked: where the P wave stands relative to the
\* QRS complex differs between two consecutive beats (60/40, 75/40 and
\* 100/40 are no whole ratios).
C19_PhasesNotLocked ==
    sweep # None =>
        \A b \in 1..Len(sweep.beats) :
            (b + 1 < Len(sweep.beats)
                \/ (b + 1 = Len(sweep.beats)
                      /\ sampleBeatNumber(sweep.pixel,
                             configForSample(sweep.ecg).heartRate) = b + 1))
                => sweep.beats[b] # sweep.beats[b + 1]

----------------------------------------------------------------------------
(* Claims on the beats that hide the abnormality (SpecSynth) *)

\* C21 (as claimed): for pathological-q-waves, on every beat where
\* showAbnormality is false the effective modifiers have qrsMorphology
\* 'normal': the QRS complex of that beat is not the pathological Q.
C21_HiddenQIsNormal ==
    (/\ input # None
     /\ sample # None
     /\ input.config.pathology = "pathological-q-waves"
     /\ ~sample.showAbnormality)
        => Field(sample.effectiveModifiers, "qrsMorphology", "normal") = "normal"

\* C22: wolff-parkinson-white without preexcitation is a normal beat.  On a
\* beat where showAbnormality is false the effective modifiers have deltaWave
\* false, prInterval 1.0, qrsWidth 1.0 and qrsMorphology 'normal', and the
\* sample is the sample of pathology normal for the same phase, beat, heart
\* rate, amplitude and noise; on a beat where it is true the delta wave and
\* qrsWidth 1.2 are used.
C22_HiddenWPWIsNormal ==
    (/\ input # None
     /\ sample # None
     /\ input.config.pathology = "wolff-parkinson-white")
        => IF ~sample.showAbnormality
           THEN /\ sample.effectiveModifiers.deltaWave = FALSE
                /\ sample.effectiveModifiers.prInterval = Scale
                /\ sample.effectiveModifiers.qrsWidth = Scale
                /\ sample.effectiveModifiers.qrsMorphology = "normal"
                /\ sample.value =
                       generateECGComplex(input.phase, ConfigOf("normal"),
                                          input.beatNumber, store).value
           ELSE /\ sample.effectiveModifiers.deltaWave = TRUE
                /\ sample.effectiveModifiers.qrsWidth = 12000

\* A beat without preexcitation at phase 0.16, where a preexcited beat has
\* its delta wave
C22_Witness ==
    /\ input # None
    /\ sample # None
    /\ input.config.pathology = "wolff-parkinson-white"
    /\ ~sample.showAbnormality
    /\ input.phase = 1600
    /\ generatePRSegment(input.phase, SwitchModifiers("wolff-parkinson-white"),
                         input.beatNumber).v # 0
    /\ sample.value = FMul(noiseTerm(input.phase, input.config.noise),
                           input.config.amplitude)

\* C23: the ST deviation of a hidden beat is reduced, not removed.  For
\* st-elevation-mi and st-depression-ischemia on a beat b where showAbnormality
\* is false, stSegmentElevation is base * (0.3 + v) with
\* v = (((b * 7301 + 29347) mod 233280) / 233280 - 0.5) * 0.2: it has the sign
\* of the base value and between 20% and 40% of its magnitude, and every other
\* field of the modifiers is unchanged.
C23_HiddenSTReduced ==
    (/\ input # None
     /\ sample # None
     /\ input.config.pathology \in {"st-elevation-mi", "st-depression-ischemia"}
     /\ ~sample.showAbnormality)
        => LET table == SwitchModifiers(input.config.pathology)
               base  == table.stSegmentElevation
               eff   == sample.effectiveModifiers.stSegmentElevation
               v     == FMul(HashFraction(JsMod(input.beatNumber * 7301 + 29347,
                                                233280)) - 5000, 2000)
           IN  /\ eff = FMul(base, 3000 + v)
               /\ base * eff > 0
               /\ IF base > 0
                  THEN 2000 * base <= eff * Scale /\ eff * Scale <= 4000 * base
                  ELSE 4000 * base <= eff * Scale /\ eff * Scale <= 2000 * base
               /\ DOMAIN sample.effectiveModifiers = DOMAIN table
               /\ \A f \in DOMAIN table \ {"stSegmentElevation"} :
                      sample.effectiveModifiers[f] = table[f]

\* A hidden beat of st-elevation-mi inside its ST window: part of the
\* elevation of 0.25 is left
C23_Witness ==
    /\ input # None
    /\ sample # None
    /\ input.config.pathology = "st-elevation-mi"
    /\ ~sample.showAbnormality
    /\ input.phase = 3500
    /\ sample.effectiveModifiers.stSegmentElevation >= 500
    /\ sample.effectiveModifiers.stSegmentElevation < 1000

----------------------------------------------------------------------------
(* Claims on the segment generators (SpecSegments), continued *)

\* C24: per-beat QRS jitter.  In each of the four morphologies every value of
\* the QRS complex is the value of the shape times qrsAmplitude times
\* 1 + (((beatNumber * 9301 + 49297) mod 200) - 100) / 100 * 0.03, a factor of
\* the beat number alone that lies in [0.97, 1.03) for every beat.
C24_QRSJitter ==
    (input # None /\ segments # None) =>
        LET modifiers   == SwitchModifiers(input.config.pathology)
            qrsDuration == FMul(800, Field(modifiers, "qrsWidth", Scale))
            factor      == Scale + 3 * (((input.beatNumber * 9301 + 49297) % 200) - 100)
        IN  /\ 9700 <= factor /\ factor < 10300
            /\ (input.phase >= 2000 /\ input.phase < 2000 + qrsDuration) =>
                   segments.qrs.v =
                       FMul(FMul(qrsShape(Field(modifiers, "qrsMorphology", "normal"),
                                          FDiv(input.phase - 2000, qrsDuration)),
                                 Field(modifiers, "qrsAmplitude", Scale)),
                            factor)

\* Beat 3, whose factor is the smallest (0.97), inside the QRS complex of
\* left-bundle-branch-block
C24_Witness ==
    /\ input # None
    /\ segments # None
    /\ input.config.pathology = "left-bundle-branch-block"
    /\ SwitchModifiers(input.config.pathology).qrsMorphology = "lbbb"
    /\ input.beatNumber = 3
    /\ input.phase = 2500
    /\ (input.beatNumber * 9301 + 49297) % 200 = 0
    /\ segments.qrs.v # 0

----------------------------------------------------------------------------
(* Claims on the heart blocks (SpecSynth) *)

\* C25: Wenckebach lengthening.  For second-degree-av-block-type1 a beat b
\* with b mod 4 in {0, 1, 2} has the PR interval
\* prInterval + prIntervalVariation * (b mod 4) / 3 (1.2, 1.3, 1.4), and the
\* beats with b mod 4 = 3 are exactly the dropped ones (in the QRS window a
\* beat executes the QRS division iff it is not dropped): the four-beat
\* lengthening cycle and the cycle round(1 / droppedBeats) stay aligned.
C25_Wenckebach ==
    (/\ input # None
     /\ sample # None
     /\ input.config.pathology = "second-degree-av-block-type1")
        => LET phase         == JsMod(input.phase, Scale)
               cyclePosition == input.beatNumber % 4
               modifiers     == sample.effectiveModifiers
           IN  /\ sample.showAbnormality
               /\ cyclePosition \in {0, 1, 2} =>
                      currentPRInterval(modifiers, input.beatNumber)
                          = modifiers.prInterval
                            + (modifiers.prIntervalVariation * cyclePosition) \div 3
               /\ Round(FDiv(Scale, modifiers.droppedBeats)) = 4
               /\ (phase >= 2000 /\ phase < 2800) =>
                      ((800 \notin sample.d) <=> cyclePosition = 3)

\* Beat 6, the third of its cycle, with the longest PR interval (1.4) and a
\* QRS complex
C25_Witness ==
    /\ input # None
    /\ sample # None
    /\ input.config.pathology = "second-degree-av-block-type1"
    /\ input.beatNumber = 6
    /\ input.phase = 2400
    /\ currentPRInterval(sample.effectiveModifiers, input.beatNumber) = 14000
    /\ 800 \in sample.d

\* C26: AV dissociation.  The P-wave contribution is the P wave at the atrial
\* phase (phase * heartRate / 60) mod 1, whatever ventricularRate is; the
\* PR, QRS, ST and T contributions are taken at the ventricular phase
\* (phase * ventricularRate / 60) mod 1, with ventricularRate = 0.4 * heartRate
\* when the modifiers give none; the value is the sum of the two.
C26_Dissociation ==
    (input # None /\ segments # None /\ "modifiers" \in DOMAIN input) =>
        LET heartRate   == input.config.heartRate
            atrialPhase == ((input.phase * heartRate) \div 60) % Scale
            tenths      == IF "ventricularRate" \in DOMAIN input.modifiers
                           THEN input.modifiers.ventricularRate * 10
                           ELSE 4 * heartRate
            ventricularPhase == ((input.phase * tenths) \div 600) % Scale
        IN  /\ \A vr \in VentricularRates :
                   segments.p = generatePWave(atrialPhase, DissociationModifiers(vr))
            /\ segments.rest.v =
                   generatePRSegment(ventricularPhase, input.modifiers, input.beatNumber).v
                   + generateQRSComplex(ventricularPhase, input.modifiers, input.beatNumber).v
                   + generateSTSegment(ventricularPhase, input.modifiers).v
                   + generateTWave(ventricularPhase, input.modifiers).v
            /\ segments.whole.v = segments.p.v + segments.rest.v

\* No ventricularRate given at 100 beats per minute: at phase 0.05 the atria
\* are in their P wave (atrial phase 0.0833), at phase 0.35 the ventricles in
\* their QRS complex (ventricular phase 0.2333, atrial phase 0.5833)
C26_Witness ==
    /\ input # None
    /\ segments # None
    /\ "modifiers" \in DOMAIN input
    /\ "ventricularRate" \notin DOMAIN input.modifiers
    /\ input.config.heartRate = 100
    /\ input.phase = 3500
    /\ segments.p.v = 0
    /\ 800 \in segments.rest.d
    /\ segments.rest.v = 4408

----------------------------------------------------------------------------
(* Claims on the sweep writing the trace (SpecTrace) *)

\* C27: sweep coverage.  After a frame every column the sweep moved through,
\* from its previous position on and around the right edge when it wrapped,
\* holds a sample taken less than one pass (width pixels of time) ago: none
\* of them is empty or keeps the sample of the previous pass.
C27_SweepCoverage ==
    (renderer # None /\ "moved" \in DOMAIN renderer /\ renderer.frames > 0) =>
        \A x \in renderer.moved :
            /\ renderer.waveformBuffer[x + 1] # NaN
            /\ renderer.waveformBuffer[x + 1] > renderer.sampleTime - renderer.width

\* C28: phase continuity.  After a frame the phase generateSampleAtTime gives
\* the sweep's column is the same with the heart rate and offset the frame
\* ended with as with the heart rate and offset it started from.
C28_PhaseContinuity ==
    (renderer # None /\ "before" \in DOMAIN renderer /\ renderer.frames > 0) =>
        samplePhase(getTimeForPixel(renderer, renderer.sweepPosition),
                    renderer.lastHeartRate, renderer.phaseOffset)
        = samplePhase(getTimeForPixel(renderer, renderer.sweepPosition),
                      renderer.before.heartRate, renderer.before.phaseOffset)

----------------------------------------------------------------------------
(* Claims on the ECG instance (SpecECG), continued *)

----------------------------------------------------------------------------
(* Claims on the modifier fields no generator reads (SpecSynth) *)

====
